---- MODULE Spec2Model ----
(***************************************************************************)
(* TestLink MCP API (src/mcp-api/testlink_api.py): the prompt endpoint,    *)
(* the agent router (process_prompt), context retrieval, the tool          *)
(* dispatcher, its handlers and the name resolvers, over an abstract       *)
(* remote service (the TestLink XML-RPC facade) whose calls may fail.      *)
(*                                                                         *)
(* Text is a sequence of one-character strings, so that lower(), split()   *)
(* and the substring test are computed.  Python's None is the value None   *)
(* for text and 0 for identifiers (TestLink identifiers are >= 1).         *)
(***************************************************************************)
EXTENDS Integers, Sequences, FiniteSets, TLC

\* ---------------------------------------------------------------- bounds

\* Facade calls of one step that the failure plan can make fail.
MaxCalls == 9
\* Facade calls that fail within one step.
MaxFaults == 1
\* Projects the remote service holds.
MaxProjects == 2

\* ------------------------------------------------------------------ text

None == <<"None">>

Range(s) == {s[i] : i \in 1..Len(s)}

RECURSIVE Join(_)
Join(s) == IF s = <<>> THEN "" ELSE s[1] \o Join(Tail(s))

\* str(v) inside an f-string.
Show(v) == IF v = None THEN "None" ELSE Join(v)

UpperCase ==
  [a |-> "A", b |-> "B", c |-> "C", d |-> "D", e |-> "E", f |-> "F", g |-> "G",
   h |-> "H", i |-> "I", j |-> "J", k |-> "K", l |-> "L", m |-> "M", n |-> "N",
   o |-> "O", p |-> "P", q |-> "Q", r |-> "R", s |-> "S", t |-> "T", u |-> "U",
   v |-> "V", w |-> "W", x |-> "X", y |-> "Y", z |-> "Z"]

LowerCase ==
  [A |-> "a", B |-> "b", C |-> "c", D |-> "d", E |-> "e", F |-> "f", G |-> "g",
   H |-> "h", I |-> "i", J |-> "j", K |-> "k", L |-> "l", M |-> "m", N |-> "n",
   O |-> "o", P |-> "p", Q |-> "q", R |-> "r", S |-> "s", T |-> "t", U |-> "u",
   V |-> "v", W |-> "w", X |-> "x", Y |-> "y", Z |-> "z"]

\* str.lower(), one character.
LowerChar(c) == IF c \in DOMAIN LowerCase THEN LowerCase[c] ELSE c

\* str.upper(), one character.
UpperChar(c) == IF c \in DOMAIN UpperCase THEN UpperCase[c] ELSE c

\* str.lower()
Lower(s) == [i \in 1..Len(s) |-> LowerChar(s[i])]

\* `needle in hay` on two strings.
Contains(hay, needle) ==
  \E i \in 0..(Len(hay) - Len(needle)) : SubSeq(hay, i + 1, i + Len(needle)) = needle

\* str.split(): the maximal runs of non-blank characters.
RECURSIVE Split(_)
Split(s) ==
  IF s = <<>> THEN <<>>
  ELSE IF s[1] = " " THEN Split(Tail(s))
  ELSE LET stop == IF \E i \in 1..Len(s) : s[i] = " "
                   THEN CHOOSE i \in 1..Len(s) : s[i] = " " /\ \A j \in 1..(i - 1) : s[j] # " "
                   ELSE Len(s) + 1
       IN <<SubSeq(s, 1, stop - 1)>> \o Split(SubSeq(s, stop, Len(s)))

\* Python truthiness of a text-or-None value.
Truthy(v) == v # None /\ v # <<>>

\* ------------------------------------------------------------ exceptions

\* No exception.
NoExc == ""

\* What a failing facade call raises: a connectivity failure or a fault
\* the remote service answers with.
ConnErr == "ConnectionError: remote service unreachable"

Fault == "TLResponseError: operation rejected"

FaultKinds == {ConnErr, Fault}

AttributeError == "'NoneType' object has no attribute"

KeyError(k) == "'" \o k \o "'"

IndexError == "list index out of range"

ModelError == "model call failed"

\* ------------------------------------------------------- the remote data

PA == [id |-> 1, name |-> <<"A", "b">>, prefix |-> <<"A", "B">>]

PB == [id |-> 2, name |-> <<"d">>, prefix |-> <<"D">>]

\* First-level suites of each project.
SuitesOf(pid) ==
  IF pid = 1 THEN << [id |-> 11, name |-> <<"S">>], [id |-> 12, name |-> <<"s", "d">>] >>
  ELSE <<>>

\* The cases of each suite, as a suite's case listing answers them (without
\* the full external id, which only the direct lookup answers).
CasesOf(sid) ==
  IF sid = 11
  THEN << [id |-> 31, name |-> <<"c">>, summary |-> <<"x", "d">>, tc_external_id |-> <<"1">>,
           full_tc_external_id |-> <<>>] >>
  ELSE IF sid = 12
  THEN << [id |-> 32, name |-> <<"d">>, summary |-> <<>>, tc_external_id |-> <<"2">>,
           full_tc_external_id |-> <<>>] >>
  ELSE <<>>

AllCases == CasesOf(11) \o CasesOf(12)

\* The full external id of a case: the prefix of project 1, "-", its number.
FullExternalId(c) == PA.prefix \o <<"-">> \o c.tc_external_id

PlanP == [id |-> 21, name |-> <<"P">>]

PlanD == [id |-> 22, name |-> <<"d">>]

\* The project listings the remote service can hold: every listing without
\* repetition of at most MaxProjects of the projects PA and PB.
ProjectLists ==
  {l \in UNION {[1..n -> {PA, PB}] : n \in 0..MaxProjects} :
     \A i, j \in 1..Len(l) : i # j => l[i] # l[j]}

\* The plan listings of project 1 (the other projects have no plan).
PlanLists == {<<>>, <<PlanP>>, <<PlanP, PlanD>>}

RemoteStates == [projects : ProjectLists, plans : PlanLists]

PlansOf(remote, pid) == IF pid = 1 THEN remote.plans ELSE <<>>

\* The cases a direct lookup by external id answers with.
CaseByExternalId(ext) ==
  LET rows == [i \in 1..Len(AllCases) |->
                 [AllCases[i] EXCEPT !.full_tc_external_id = FullExternalId(AllCases[i])]]
  IN SelectSeq(rows, LAMBDA c : c.full_tc_external_id = ext)

\* ------------------------------------------------------------ the facade

\* A failure plan: which facade calls of a step fail, and how.
FaultPlans ==
  UNION {[S -> FaultKinds] : S \in {T \in SUBSET (1..MaxCalls) : Cardinality(T) <= MaxFaults}}

\* The operations that change the remote service's data.
WriteOps ==
  {"createTestProject", "createTestCase", "createTestSuite", "updateTestCase",
   "updateTestSuite", "createTestPlan", "deleteTestPlan", "addTestCaseToTestPlan",
   "createBuild", "reportTCResult"}

\* What a successful call does to the listings: deleting a plan removes it.
\* (What the other writes create is not listed back within a request; the
\* listings change between requests by RemoteChange.)
Effect(remote, op, on) ==
  IF op = "deleteTestPlan"
  THEN [remote EXCEPT !.plans = SelectSeq(@, LAMBDA p : p.id # on[1])]
  ELSE remote

\* The handle self.tl_client holds: the endpoint and credential it was made
\* with ("none": no handle yet).
NoClient == [url |-> "none", key |-> "none"]

\* What a call through a handle fails with by the handle alone: an endpoint
\* that is down, a credential the remote service rejects.
HandleFault(handle) ==
  IF handle.url # "up" THEN ConnErr
  ELSE IF handle.key # "valid" THEN Fault
  ELSE NoExc

\* Bind([x \in {e} |-> body]) is body with x standing for the value of e: the
\* value a statement computed, named for the statements after it.
Bind(f) == f[CHOOSE x \in DOMAIN f : TRUE]

\* The machine a step runs on: the remote data, the handle, the calls issued
\* so far and the failure plan.  One facade call: it is logged, fails if the plan says
\* so, and otherwise takes effect and answers val.
Invoke(m, op, on, ref, val) ==
  Bind([i \in {Len(m.calls) + 1} |->
      Bind([out \in {IF HandleFault(m.handle) # NoExc THEN HandleFault(m.handle)
             ELSE IF i \in DOMAIN m.plan THEN m.plan[i] ELSE NoExc} |->
     [m |-> [m EXCEPT !.calls = Append(@, [op |-> op, on |-> on, ref |-> ref, out |-> out]),
                      !.remote = IF out = NoExc THEN Effect(@, op, on) ELSE @],
      exc |-> out,
      val |-> val]])])

\* The first of the indices at which a loop's test holds, 0 if there is none.
FirstIndex(hits) ==
  IF hits = {} THEN 0 ELSE CHOOSE i \in hits : \A j \in hits : i <= j

\* --------------------------------------------------------- the resolvers

\* for p in listing: if p['name'].lower() == name.lower(): return p['id'].
\* With name None the comparison raises on the first element.
IdByName_Substring(listing, name) ==
  Bind([k \in {FirstIndex({i \in DOMAIN listing :
                            Contains(Lower(listing[i].name), Lower(name))})} |->
     IF k = 0 THEN 0 ELSE listing[k].id])

IdByName(listing, name) ==
  Bind([k \in {FirstIndex({i \in DOMAIN listing : Lower(listing[i].name) = Lower(name)})} |->
     IF k = 0 THEN 0 ELSE listing[k].id])

\* A lookup that answers from a listing it kept (the one holding only the
\* project of id 1) without asking the facade.
_get_project_id_by_name_Cached(m, name) ==
  [m |-> m, exc |-> NoExc, val |-> IF name = None THEN 0 ELSE IdByName(<<PA>>, name)]

_get_project_id_by_name(m, name) ==
  Bind([r \in {Invoke(m, "getProjects", <<>>, <<>>, m.remote.projects)} |->
     IF r.exc # NoExc THEN [m |-> r.m, exc |-> r.exc, val |-> 0]
     ELSE IF name = None /\ r.val # <<>> THEN [m |-> r.m, exc |-> AttributeError, val |-> 0]
     ELSE [m |-> r.m, exc |-> NoExc, val |-> IF name = None THEN 0 ELSE IdByName(r.val, name)]])

_get_project_prefix(m, project_id) ==
  Bind([r \in {Invoke(m, "getProjects", <<>>, <<>>, m.remote.projects)} |->
      Bind([k \in {FirstIndex({i \in DOMAIN r.val : r.val[i].id = project_id})} |->
     IF r.exc # NoExc THEN [m |-> r.m, exc |-> r.exc, val |-> <<>>]
     ELSE [m |-> r.m, exc |-> NoExc, val |-> IF k = 0 THEN <<>> ELSE r.val[k].prefix]])])

_get_plan_id_by_name(m, name, project_id) ==
  Bind([r \in {Invoke(m, "getProjectTestPlans", <<project_id>>, <<>>, PlansOf(m.remote, project_id))} |->
     IF r.exc # NoExc \/ name = None THEN [m |-> r.m, exc |-> NoExc, val |-> 0]
     ELSE [m |-> r.m, exc |-> NoExc, val |-> IdByName(r.val, name)]])

_get_suite_id_by_name(m, suite_name, project_id) ==
  Bind([r \in {Invoke(m, "getFirstLevelTestSuitesForTestProject", <<project_id>>, <<>>,
                  SuitesOf(project_id))} |->
     IF r.exc # NoExc \/ suite_name = None THEN [m |-> r.m, exc |-> NoExc, val |-> 0]
     ELSE [m |-> r.m, exc |-> NoExc, val |-> IdByName(r.val, suite_name)]])

NoCase == [id |-> 0]

\* A test that looks at the name only.
CaseMatches_NameOnly(c, name) == Lower(c.name) = Lower(name)

\* c['name'].lower() == name.lower() or name in c.get('summary', '')
CaseMatches(c, name) == Lower(c.name) = Lower(name) \/ Contains(c.summary, name)

\* The scan of _find_case_by_name from suite k on: one listing call per
\* suite, the first matching case returned, any failure ending the scan.
RECURSIVE ScanSuites(_, _, _, _)
ScanSuites(m, suites, k, name) ==
  IF k > Len(suites) THEN [m |-> m, exc |-> NoExc, val |-> NoCase]
  ELSE Bind([r \in {Invoke(m, "getTestCasesForTestSuite", <<suites[k].id>>, <<>>,
                       CasesOf(suites[k].id))} |->
           Bind([i \in {FirstIndex({j \in DOMAIN r.val : CaseMatches(r.val[j], name)})} |->
          IF r.exc # NoExc THEN [m |-> r.m, exc |-> NoExc, val |-> NoCase]
          ELSE IF i # 0 THEN [m |-> r.m, exc |-> NoExc, val |-> r.val[i]]
          ELSE ScanSuites(r.m, suites, k + 1, name)])])

ScanCases(m, name, project_id) ==
  Bind([r \in {Invoke(m, "getFirstLevelTestSuitesForTestProject", <<project_id>>, <<>>,
                  SuitesOf(project_id))} |->
     IF r.exc # NoExc THEN [m |-> r.m, exc |-> NoExc, val |-> NoCase]
     ELSE ScanSuites(r.m, r.val, 1, name)])

\* A lookup that goes to the suite scan whatever the name.
_find_case_by_name_ScanOnly(m, name, project_id) ==
  IF name = None THEN [m |-> m, exc |-> "argument of type 'NoneType' is not iterable", val |-> NoCase]
  ELSE ScanCases(m, name, project_id)

_find_case_by_name(m, name, project_id) ==
  IF name = None THEN [m |-> m, exc |-> "argument of type 'NoneType' is not iterable", val |-> NoCase]
  ELSE IF Contains(name, <<"-">>)
  THEN Bind([r \in {Invoke(m, "getTestCase", <<>>, <<name>>, CaseByExternalId(name))} |->
          IF r.exc = NoExc /\ r.val # <<>>
          THEN [m |-> r.m, exc |-> NoExc, val |-> r.val[1]]
          ELSE ScanCases(r.m, name, project_id)])
  ELSE ScanCases(m, name, project_id)

\* ---------------------------------------------------------- the handlers

\* A handler's outcome: the machine after it, the exception it let escape
\* (NoExc if none) and the result dict it returned.
NoResult == [raised |-> TRUE]

Ret(m, res) == [m |-> m, exc |-> NoExc, res |-> res]

Raise(m, e) == [m |-> m, exc |-> e, res |-> NoResult]

\* {"success": False, "message": ...}
Failure(message) == [success |-> FALSE, message |-> message]

\* "".join([w[0].upper() for w in name.split()[:3]])
Initials(name) ==
  Bind([words \in {Split(name)} |->
      Bind([n \in {IF Len(words) < 3 THEN Len(words) ELSE 3} |->
     [i \in 1..n |-> UpperChar(words[i][1])]])])

_create_project(m, name, prefix) ==
  IF ~Truthy(prefix) /\ name = None THEN Raise(m, AttributeError)
  ELSE Bind([px \in {IF Truthy(prefix) THEN prefix ELSE Initials(name)} |->
           Bind([r \in {Invoke(m, "createTestProject", <<>>, <<name, px>>, "created")} |->
          IF r.exc # NoExc
          THEN Ret(r.m, Failure(<<"Error creando proyecto: ", r.exc>>))
          ELSE Ret(r.m, [action |-> "create_project", success |-> TRUE, data |-> r.val,
                         message |-> <<"Proyecto '", Show(name),
                                       "' creado exitosamente con prefijo '", Show(px), "'">>])])])

_list_projects(m) ==
  Bind([r \in {Invoke(m, "getProjects", <<>>, <<>>, m.remote.projects)} |->
     IF r.exc # NoExc
     THEN Ret(r.m, [action |-> "list_projects", success |-> FALSE,
                    message |-> <<"Error listando proyectos: ", r.exc>>])
     ELSE Ret(r.m, [action |-> "list_projects", success |-> TRUE, data |-> r.val,
                    message |-> <<"Se encontraron ", ToString(Len(r.val)), " proyectos">>])])

\* The id the creating handlers settle on: the listed entity of that name
\* if a name is given and matches, else the first listed one.
IdOrFirst(listing, name) ==
  Bind([found \in {IF Truthy(name) THEN IdByName(listing, name) ELSE 0} |->
     IF found # 0 THEN found ELSE listing[1].id])

_create_test_case(m, name, project_name, suite_name, summary) ==
  Bind([r1 \in {Invoke(m, "getProjects", <<>>, <<>>, m.remote.projects)} |->
     IF r1.exc # NoExc THEN Ret(r1.m, Failure(<<"Error creando caso: ", r1.exc>>))
     ELSE IF r1.val = <<>> THEN Ret(r1.m, Failure(<<"No hay proyectos disponibles.">>))
     ELSE
  Bind([project_id \in {IdOrFirst(r1.val, project_name)} |->
      Bind([r2 \in {Invoke(r1.m, "getFirstLevelTestSuitesForTestProject", <<project_id>>, <<>>,
                   SuitesOf(project_id))} |->
     IF r2.exc # NoExc THEN Ret(r2.m, Failure(<<"Error creando caso: ", r2.exc>>))
     ELSE IF r2.val = <<>>
     THEN Ret(r2.m, Failure(<<"El proyecto no tiene suites. Crea una primero.">>))
     ELSE
  Bind([suite_id \in {IdOrFirst(r2.val, suite_name)} |->
      Bind([r3 \in {Invoke(r2.m, "createTestCase", <<suite_id, project_id>>, <<name>>, "created")} |->
     IF r3.exc # NoExc THEN Ret(r3.m, Failure(<<"Error creando caso: ", r3.exc>>))
     ELSE Ret(r3.m, [action |-> "create_test_case", success |-> TRUE, data |-> r3.val,
                     message |-> <<"Caso '", Show(name), "' creado exitosamente en proyecto ",
                                   ToString(project_id)>>])])])])])])

_create_test_suite(m, name, project_name) ==
  Bind([r1 \in {Invoke(m, "getProjects", <<>>, <<>>, m.remote.projects)} |->
     IF r1.exc # NoExc THEN Ret(r1.m, Failure(<<"Error creando suite: ", r1.exc>>))
     ELSE IF r1.val = <<>> THEN Ret(r1.m, Failure(<<"No hay proyectos disponibles">>))
     ELSE
  Bind([project_id \in {IdOrFirst(r1.val, project_name)} |->
      Bind([r2 \in {Invoke(r1.m, "createTestSuite", <<project_id>>, <<name>>, "created")} |->
     IF r2.exc # NoExc THEN Ret(r2.m, Failure(<<"Error creando suite: ", r2.exc>>))
     ELSE Ret(r2.m, [action |-> "create_test_suite", success |-> TRUE, data |-> r2.val,
                     message |-> <<"Suite '", Show(name), "' creada exitosamente">>])])])])

\* A read that marks the case it reads.
_read_test_case_Touching(m, test_case_external_id, project_name) ==
  Bind([r \in {Invoke(m, "updateTestCase", <<>>, <<test_case_external_id, "fields">>,
                  CaseByExternalId(test_case_external_id))} |->
     IF r.exc # NoExc THEN Ret(r.m, Failure(<<"Error leyendo caso: ", r.exc>>))
     ELSE IF r.val # <<>>
     THEN Ret(r.m, [success |-> TRUE, data |-> r.val, action |-> "read_test_case"])
     ELSE Ret(r.m, Failure(<<"Caso de prueba no encontrado">>))])

_read_test_case(m, test_case_external_id, project_name) ==
  Bind([r \in {Invoke(m, "getTestCase", <<>>, <<test_case_external_id>>,
                  CaseByExternalId(test_case_external_id))} |->
     IF r.exc # NoExc THEN Ret(r.m, Failure(<<"Error leyendo caso: ", r.exc>>))
     ELSE IF r.val # <<>>
     THEN Ret(r.m, [success |-> TRUE, data |-> r.val, action |-> "read_test_case"])
     ELSE Ret(r.m, Failure(<<"Caso de prueba no encontrado">>))])

_update_test_case(m, test_case_external_id, project_name, updates) ==
  Bind([r \in {Invoke(m, "updateTestCase", <<>>, <<test_case_external_id, "fields">>, "updated")} |->
     IF r.exc # NoExc THEN Ret(r.m, Failure(<<"Error actualizando caso: ", r.exc>>))
     ELSE Ret(r.m, [success |-> TRUE, data |-> r.val, action |-> "update_test_case"])])

\* A removal that deletes the case instead of deactivating it.
_delete_test_case_Hard(m, test_case_external_id, project_name) ==
  Bind([r \in {Invoke(m, "deleteTestCase", <<>>, <<test_case_external_id>>, "deleted")} |->
     IF r.exc # NoExc THEN Ret(r.m, Failure(<<"Error eliminando caso: ", r.exc>>))
     ELSE Ret(r.m, [success |-> TRUE, action |-> "delete_test_case",
                    message |-> <<"Caso ", Show(test_case_external_id), " desactivado/eliminado">>])])

_delete_test_case(m, test_case_external_id, project_name) ==
  Bind([r \in {Invoke(m, "updateTestCase", <<>>, <<test_case_external_id, "active=0">>, "updated")} |->
     IF r.exc # NoExc THEN Ret(r.m, Failure(<<"Error eliminando caso: ", r.exc>>))
     ELSE Ret(r.m, [success |-> TRUE, action |-> "delete_test_case",
                    message |-> <<"Caso ", Show(test_case_external_id), " desactivado/eliminado">>])])

_list_test_suites(m, project_name) ==
  Bind([r1 \in {_get_project_id_by_name(m, project_name)} |->
     IF r1.exc # NoExc THEN Ret(r1.m, Failure(<<"Error listando suites: ", r1.exc>>))
     ELSE IF r1.val = 0 THEN Ret(r1.m, Failure(<<"Proyecto no encontrado">>))
     ELSE
  Bind([r2 \in {Invoke(r1.m, "getFirstLevelTestSuitesForTestProject", <<r1.val>>, <<>>,
                   SuitesOf(r1.val))} |->
     IF r2.exc # NoExc THEN Ret(r2.m, Failure(<<"Error listando suites: ", r2.exc>>))
     ELSE Ret(r2.m, [success |-> TRUE, data |-> r2.val, action |-> "list_test_suites"])])])

_list_test_cases_in_suite(m, suite_name, project_name) ==
  Bind([r1 \in {_get_project_id_by_name(m, project_name)} |->
     IF r1.exc # NoExc THEN Ret(r1.m, Failure(<<"Error listando casos de suite: ", r1.exc>>))
     ELSE IF r1.val = 0 THEN Ret(r1.m, Failure(<<"Proyecto no encontrado">>))
     ELSE
  Bind([r2 \in {_get_suite_id_by_name(r1.m, suite_name, r1.val)} |->
     IF r2.val = 0 THEN Ret(r2.m, Failure(<<"Suite no encontrada">>))
     ELSE
  Bind([r3 \in {Invoke(r2.m, "getTestCasesForTestSuite", <<r2.val>>, <<>>, CasesOf(r2.val))} |->
     IF r3.exc # NoExc THEN Ret(r3.m, Failure(<<"Error listando casos de suite: ", r3.exc>>))
     ELSE Ret(r3.m, [success |-> TRUE, data |-> r3.val, action |-> "list_test_cases_in_suite"])])])])

_update_test_suite(m, suite_name, project_name, updates) ==
  Bind([r1 \in {_get_project_id_by_name(m, project_name)} |->
     IF r1.exc # NoExc THEN Ret(r1.m, Failure(<<"Error actualizando suite: ", r1.exc>>))
     ELSE IF r1.val = 0 THEN Ret(r1.m, Failure(<<"Proyecto no encontrado">>))
     ELSE
  Bind([r2 \in {_get_suite_id_by_name(r1.m, suite_name, r1.val)} |->
     IF r2.val = 0 THEN Ret(r2.m, Failure(<<"Suite no encontrada">>))
     ELSE
  Bind([new_name \in {IF "new_name" \in DOMAIN updates THEN updates["new_name"] ELSE suite_name} |->
      Bind([r3 \in {Invoke(r2.m, "updateTestSuite", <<r2.val, r1.val>>, <<new_name>>, "updated")} |->
     IF r3.exc # NoExc THEN Ret(r3.m, Failure(<<"Error actualizando suite: ", r3.exc>>))
     ELSE Ret(r3.m, [success |-> TRUE, message |-> <<"Suite actualizada">>,
                     action |-> "update_test_suite"])])])])])

_list_test_plans(m, project_name) ==
  Bind([r1 \in {_get_project_id_by_name(m, project_name)} |->
     IF r1.exc # NoExc THEN Ret(r1.m, Failure(<<"Error listando planes: ", r1.exc>>))
     ELSE IF r1.val = 0 THEN Ret(r1.m, Failure(<<"Proyecto no encontrado">>))
     ELSE
  Bind([r2 \in {Invoke(r1.m, "getProjectTestPlans", <<r1.val>>, <<>>, PlansOf(r1.m.remote, r1.val))} |->
     IF r2.exc # NoExc THEN Ret(r2.m, Failure(<<"Error listando planes: ", r2.exc>>))
     ELSE Ret(r2.m, [success |-> TRUE, data |-> r2.val, action |-> "list_test_plans"])])])

_create_test_plan(m, name, project_name, notes) ==
  Bind([r \in {Invoke(m, "createTestPlan", <<>>, <<name, project_name>>, "created")} |->
     IF r.exc # NoExc THEN Ret(r.m, Failure(<<"Error creando plan: ", r.exc>>))
     ELSE Ret(r.m, [action |-> "create_test_plan", success |-> TRUE, data |-> r.val,
                    message |-> <<"Plan de pruebas '", Show(name), "' creado en proyecto '",
                                  Show(project_name), "'">>])])

_delete_test_plan(m, plan_name, project_name) ==
  Bind([r1 \in {_get_project_id_by_name(m, project_name)} |->
     IF r1.exc # NoExc THEN Ret(r1.m, Failure(<<"Error eliminando plan: ", r1.exc>>))
     ELSE IF r1.val = 0 THEN Ret(r1.m, Failure(<<"Proyecto no encontrado">>))
     ELSE
  Bind([r2 \in {_get_plan_id_by_name(r1.m, plan_name, r1.val)} |->
     IF r2.val = 0 THEN Ret(r2.m, Failure(<<"Plan no encontrado">>))
     ELSE
  Bind([r3 \in {Invoke(r2.m, "deleteTestPlan", <<r2.val>>, <<>>, "deleted")} |->
     IF r3.exc # NoExc
     THEN Ret(r3.m, Failure(<<"No se pudo eliminar el plan (posible restricción de API)">>))
     ELSE Ret(r3.m, [success |-> TRUE, message |-> <<"Plan eliminado">>,
                     action |-> "delete_test_plan"])])])])

_get_test_cases_for_test_plan(m, plan_name, project_name) ==
  Bind([r1 \in {_get_project_id_by_name(m, project_name)} |->
     IF r1.exc # NoExc
     THEN Ret(r1.m, Failure(<<"Error obteniendo casos del plan: ", r1.exc>>))
     ELSE
  Bind([r2 \in {_get_plan_id_by_name(r1.m, plan_name, r1.val)} |->
     IF r2.val = 0 THEN Ret(r2.m, Failure(<<"Plan no encontrado">>))
     ELSE
  Bind([r3 \in {Invoke(r2.m, "getTestCasesForTestPlan", <<r2.val>>, <<>>, "cases")} |->
     IF r3.exc # NoExc
     THEN Ret(r3.m, Failure(<<"Error obteniendo casos del plan: ", r3.exc>>))
     ELSE Ret(r3.m, [success |-> TRUE, data |-> r3.val,
                     action |-> "get_test_cases_for_test_plan"])])])])

_list_builds(m, plan_name, project_name) ==
  Bind([r1 \in {_get_project_id_by_name(m, project_name)} |->
     IF r1.exc # NoExc THEN Ret(r1.m, Failure(<<"Error listando builds: ", r1.exc>>))
     ELSE
  Bind([r2 \in {_get_plan_id_by_name(r1.m, plan_name, r1.val)} |->
     IF r2.val = 0 THEN Ret(r2.m, Failure(<<"Plan no encontrado">>))
     ELSE
  Bind([r3 \in {Invoke(r2.m, "getBuildsForTestPlan", <<r2.val>>, <<>>, "builds")} |->
     IF r3.exc # NoExc THEN Ret(r3.m, Failure(<<"Error listando builds: ", r3.exc>>))
     ELSE Ret(r3.m, [success |-> TRUE, data |-> r3.val, action |-> "list_builds"])])])])

_create_build(m, name, plan_name, project_name, notes) ==
  Bind([r1 \in {_get_project_id_by_name(m, project_name)} |->
     IF r1.exc # NoExc THEN Ret(r1.m, Failure(<<"Error creando build: ", r1.exc>>))
     ELSE IF r1.val = 0
     THEN Ret(r1.m, Failure(<<"Proyecto '", Show(project_name), "' no encontrado">>))
     ELSE
  Bind([r2 \in {_get_plan_id_by_name(r1.m, plan_name, r1.val)} |->
     IF r2.val = 0
     THEN Ret(r2.m, Failure(<<"Plan '", Show(plan_name), "' no encontrado en proyecto '",
                              Show(project_name), "'">>))
     ELSE
  Bind([r3 \in {Invoke(r2.m, "createBuild", <<r2.val>>, <<name>>, "created")} |->
     IF r3.exc # NoExc THEN Ret(r3.m, Failure(<<"Error creando build: ", r3.exc>>))
     ELSE Ret(r3.m, [action |-> "create_build", success |-> TRUE, data |-> r3.val,
                     message |-> <<"Build '", Show(name), "' creado en plan '",
                                   Show(plan_name), "'">>])])])])

_close_build(m, build_name, plan_name, project_name) ==
  Ret(m, Failure(<<"Función close_build no soportada completamente por la versión actual de la API">>))

\* case_info.get('full_tc_external_id') or f"{prefix}-{case_info['tc_external_id']}"
_add_test_case_to_plan(m, case_name, plan_name, project_name) ==
  Bind([r1 \in {_get_project_id_by_name(m, project_name)} |->
     IF r1.exc # NoExc THEN Ret(r1.m, Failure(<<"Error añadiendo caso al plan: ", r1.exc>>))
     ELSE IF r1.val = 0 THEN Ret(r1.m, Failure(<<"Proyecto no encontrado">>))
     ELSE
  Bind([r2 \in {_get_plan_id_by_name(r1.m, plan_name, r1.val)} |->
     IF r2.val = 0 THEN Ret(r2.m, Failure(<<"Plan no encontrado">>))
     ELSE
  Bind([r3 \in {_find_case_by_name(r2.m, case_name, r1.val)} |->
     IF r3.exc # NoExc THEN Ret(r3.m, Failure(<<"Error añadiendo caso al plan: ", r3.exc>>))
     ELSE IF r3.val.id = 0
     THEN Ret(r3.m, Failure(<<"Caso '", Show(case_name), "' no encontrado">>))
     ELSE
  Bind([r4 \in {IF Truthy(r3.val.full_tc_external_id)
            THEN [m |-> r3.m, exc |-> NoExc, val |-> r3.val.full_tc_external_id]
            ELSE Bind([px \in {_get_project_prefix(r3.m, r1.val)} |->
                    [px EXCEPT !.val = @ \o <<"-">> \o r3.val.tc_external_id]])} |->
     IF r4.exc # NoExc THEN Ret(r4.m, Failure(<<"Error añadiendo caso al plan: ", r4.exc>>))
     ELSE
  Bind([r5 \in {Invoke(r4.m, "addTestCaseToTestPlan", <<r1.val, r2.val, r3.val.id>>, <<r4.val>>,
                   "added")} |->
     IF r5.exc # NoExc THEN Ret(r5.m, Failure(<<"Error añadiendo caso al plan: ", r5.exc>>))
     ELSE Ret(r5.m, [action |-> "add_test_case_to_plan", success |-> TRUE, data |-> r5.val,
                     message |-> <<"Caso '", Show(case_name), "' (", Show(r4.val),
                                   ") añadido al plan '", Show(plan_name), "'">>])])])])])])

_read_test_execution(m, test_case_external_id, plan_name, project_name) ==
  Bind([r1 \in {_get_project_id_by_name(m, project_name)} |->
     IF r1.exc # NoExc THEN Ret(r1.m, Failure(<<"Error leyendo ejecución: ", r1.exc>>))
     ELSE
  Bind([r2 \in {_get_plan_id_by_name(r1.m, plan_name, r1.val)} |->
      Bind([r3 \in {Invoke(r2.m, "getLastExecutionResult", <<r2.val>>, <<test_case_external_id>>,
                   "execution")} |->
     IF r3.exc # NoExc THEN Ret(r3.m, Failure(<<"Error leyendo ejecución: ", r3.exc>>))
     ELSE Ret(r3.m, [success |-> TRUE, data |-> r3.val, action |-> "read_test_execution"])])])])

\* status_map of _report_test_result; NoCode where .get() answers None.
NoCode == "None"

\* A table that sends any other status on by its first letter.
status_map_FirstLetter(status) ==
  IF status = <<"p", "a", "s", "s">> THEN "p"
  ELSE IF status = <<"f", "a", "i", "l">> THEN "f"
  ELSE IF status = <<"b", "l", "o", "c", "k", "e", "d">> THEN "b"
  ELSE IF status = <<>> THEN "None"
  ELSE status[1]

status_map(status) ==
  IF status = <<"p", "a", "s", "s">> THEN "p"
  ELSE IF status = <<"f", "a", "i", "l">> THEN "f"
  ELSE IF status = <<"b", "l", "o", "c", "k", "e", "d">> THEN "b"
  ELSE IF status = <<"p">> THEN "p"
  ELSE IF status = <<"f">> THEN "f"
  ELSE IF status = <<"b">> THEN "b"
  ELSE NoCode

_report_test_result(m, case_name, status, plan_name, build_name, project_name, notes) ==
  IF status = None THEN Ret(m, Failure(<<"Error reportando resultado: ", AttributeError>>))
  ELSE
  Bind([status_code \in {status_map(Lower(status))} |->
     IF status_code = NoCode
     THEN Ret(m, Failure(<<"Estado inválido. Usar: pass, fail, blocked">>))
     ELSE
  Bind([r1 \in {_get_project_id_by_name(m, project_name)} |->
     IF r1.exc # NoExc THEN Ret(r1.m, Failure(<<"Error reportando resultado: ", r1.exc>>))
     ELSE IF r1.val = 0 THEN Ret(r1.m, Failure(<<"Proyecto no encontrado">>))
     ELSE
  Bind([r2 \in {_get_plan_id_by_name(r1.m, plan_name, r1.val)} |->
     IF r2.val = 0 THEN Ret(r2.m, Failure(<<"Plan no encontrado">>))
     ELSE
  Bind([r3 \in {_find_case_by_name(r2.m, case_name, r1.val)} |->
     IF r3.exc # NoExc THEN Ret(r3.m, Failure(<<"Error reportando resultado: ", r3.exc>>))
     ELSE IF r3.val.id = 0
     THEN Ret(r3.m, Failure(<<"Caso '", Show(case_name), "' no encontrado">>))
     ELSE
  Bind([r4 \in {Invoke(r3.m, "reportTCResult", <<r3.val.id, r2.val>>, <<build_name, status_code>>,
                   "reported")} |->
     IF r4.exc # NoExc THEN Ret(r4.m, Failure(<<"Error reportando resultado: ", r4.exc>>))
     ELSE Ret(r4.m, [action |-> "report_test_result", success |-> TRUE, data |-> r4.val,
                     message |-> <<"Resultado '", Show(status), "' reportado para caso '",
                                   Show(case_name), "' en build '", Show(build_name), "'">>])])])])])])

\* The requirement specifications of each project, and their requirements.
ReqSpecsOf(pid) == IF pid = 1 THEN << [id |-> 41] >> ELSE <<>>

RequirementsOf(spec_id) == IF spec_id = 41 THEN << [id |-> 51, req_doc_id |-> <<"R">>] >> ELSE <<>>

\* The loop of _list_requirements from specification k on.
RECURSIVE CollectRequirements(_, _, _, _, _)
CollectRequirements(m, specs, k, project_id, all_reqs) ==
  IF k > Len(specs) THEN [m |-> m, exc |-> NoExc, val |-> all_reqs]
  ELSE Bind([r \in {Invoke(m, "getRequirementsForRequirementSpecification",
                       <<specs[k].id, project_id>>, <<>>, RequirementsOf(specs[k].id))} |->
          IF r.exc # NoExc THEN [m |-> r.m, exc |-> r.exc, val |-> all_reqs]
          ELSE CollectRequirements(r.m, specs, k + 1, project_id, all_reqs \o r.val)])

_list_requirements(m, project_name) ==
  Bind([r1 \in {_get_project_id_by_name(m, project_name)} |->
     IF r1.exc # NoExc THEN Ret(r1.m, Failure(<<"Error listando requisitos: ", r1.exc>>))
     ELSE
  Bind([r2 \in {Invoke(r1.m, "getRequirementSpecifications", <<r1.val>>, <<>>, ReqSpecsOf(r1.val))} |->
     IF r2.exc # NoExc THEN Ret(r2.m, Failure(<<"Error listando requisitos: ", r2.exc>>))
     ELSE
  Bind([r3 \in {CollectRequirements(r2.m, r2.val, 1, r1.val, <<>>)} |->
     IF r3.exc # NoExc THEN Ret(r3.m, Failure(<<"Error listando requisitos: ", r3.exc>>))
     ELSE Ret(r3.m, [success |-> TRUE, data |-> r3.val, action |-> "list_requirements"])])])])

_get_requirement(m, req_doc_id, project_name) ==
  Bind([r1 \in {_get_project_id_by_name(m, project_name)} |->
     IF r1.exc # NoExc THEN Ret(r1.m, Failure(<<"Error obteniendo requisito: ", r1.exc>>))
     ELSE
  Bind([r2 \in {Invoke(r1.m, "getRequirement", <<r1.val>>, <<req_doc_id>>, "requirement")} |->
     IF r2.exc # NoExc THEN Ret(r2.m, Failure(<<"Error obteniendo requisito: ", r2.exc>>))
     ELSE Ret(r2.m, [success |-> TRUE, data |-> r2.val, action |-> "get_requirement"])])])

\* ------------------------------------------------------------ the search

SummaryLimit == 200

auth_words ==
  { <<"a","u","t","e","n","t","i","c","a","c","i","ó","n">>,
    <<"a","u","t","h","e","n","t","i","c","a","t","i","o","n">>,
    <<"a","u","t","o","r","i","z","a","t","i","o","n">>,
    <<"a","u","t","o","r","i","z","a","c","i","ó","n">> }

StartsWith(word, t) == Len(t) <= Len(word) /\ SubSeq(word, 1, Len(t)) = t

\* The term loop of _search_tests over one suite name.
SuiteMatches(suite_name, search_terms) ==
  Bind([suite_lower \in {Lower(suite_name)} |->
     \E i \in 1..Len(search_terms) :
       Bind([term_lower \in {Lower(search_terms[i])} |->
          \/ Contains(suite_lower, term_lower)
          \/ \E w \in Range(Split(suite_lower)) : StartsWith(w, term_lower)
          \/ /\ term_lower = <<"a", "u", "t", "h">>
             /\ \E a \in auth_words : Contains(suite_lower, a)])])

\* A test that tries the first term only.
AnyTermIn_FirstOnly(search_terms, text) ==
  Contains(Lower(text), Lower(search_terms[1]))

\* any(term.lower() in text.lower() for term in search_terms)
AnyTermIn(search_terms, text) ==
  \E i \in 1..Len(search_terms) : Contains(Lower(text), Lower(search_terms[i]))

Shorten(summary) ==
  IF Len(summary) > SummaryLimit
  THEN SubSeq(summary, 1, SummaryLimit) \o <<".", ".", ".">>
  ELSE summary

CaseEntries(cases, project, suite, search_terms) ==
  Bind([hits \in {SelectSeq(cases, LAMBDA c : AnyTermIn(search_terms, c.name)
                                          \/ AnyTermIn(search_terms, c.summary))} |->
     [i \in 1..Len(hits) |->
        [type |-> "test_case", name |-> hits[i].name, summary |-> Shorten(hits[i].summary),
         project |-> project.name, suite |-> suite.name, id |-> hits[i].id,
         match_reason |-> "Contenido del caso coincide"]]])

\* The suite loop of _search_tests from suite k on; a failing case listing
\* is passed over.
RECURSIVE SearchSuites(_, _, _, _, _, _)
SearchSuites(m, project, suites, k, search_terms, results) ==
  IF k > Len(suites) THEN [m |-> m, val |-> results]
  ELSE IF ~SuiteMatches(suites[k].name, search_terms)
  THEN SearchSuites(m, project, suites, k + 1, search_terms, results)
  ELSE Bind([entry \in {[type |-> "test_suite", name |-> suites[k].name, project |-> project.name,
                     id |-> suites[k].id, match_reason |-> "Nombre de suite coincide"]} |->
           Bind([r \in {Invoke(m, "getTestCasesForTestSuite", <<suites[k].id>>, <<>>,
                       CasesOf(suites[k].id))} |->
           Bind([found \in {IF r.exc # NoExc THEN <<>>
                    ELSE CaseEntries(r.val, project, suites[k], search_terms)} |->
          SearchSuites(r.m, project, suites, k + 1, search_terms,
                       results \o <<entry>> \o found)])])])

\* A project loop that a failing suite listing ends.
RECURSIVE SearchProjects_StopOnFailure(_, _, _, _, _)
SearchProjects_StopOnFailure(m, projects, k, search_terms, results) ==
  IF k > Len(projects) THEN [m |-> m, val |-> results]
  ELSE Bind([project \in {projects[k]} |->
           Bind([by_name \in {IF AnyTermIn(search_terms, project.name)
                      THEN << [type |-> "project", name |-> project.name, id |-> project.id,
                               match_reason |-> "Nombre del proyecto coincide"] >>
                      ELSE <<>>} |->
           Bind([by_prefix \in {IF AnyTermIn(search_terms, project.prefix)
                        THEN << [type |-> "project", name |-> project.name, id |-> project.id,
                                 match_reason |-> "Prefijo del proyecto coincide"] >>
                        ELSE <<>>} |->
           Bind([r \in {Invoke(m, "getFirstLevelTestSuitesForTestProject", <<project.id>>, <<>>,
                       SuitesOf(project.id))} |->
          IF r.exc # NoExc THEN [m |-> r.m, val |-> results \o by_name \o by_prefix]
          ELSE
           Bind([after \in {SearchSuites(r.m, project, r.val, 1, search_terms,
                                      results \o by_name \o by_prefix)} |->
          SearchProjects_StopOnFailure(after.m, projects, k + 1, search_terms, after.val)])])])])])

\* The project loop of _search_tests from project k on; a failing suite
\* listing is passed over.
RECURSIVE SearchProjects(_, _, _, _, _)
SearchProjects(m, projects, k, search_terms, results) ==
  IF k > Len(projects) THEN [m |-> m, val |-> results]
  ELSE Bind([project \in {projects[k]} |->
           Bind([by_name \in {IF AnyTermIn(search_terms, project.name)
                      THEN << [type |-> "project", name |-> project.name, id |-> project.id,
                               match_reason |-> "Nombre del proyecto coincide"] >>
                      ELSE <<>>} |->
           Bind([by_prefix \in {IF AnyTermIn(search_terms, project.prefix)
                        THEN << [type |-> "project", name |-> project.name, id |-> project.id,
                                 match_reason |-> "Prefijo del proyecto coincide"] >>
                        ELSE <<>>} |->
           Bind([r \in {Invoke(m, "getFirstLevelTestSuitesForTestProject", <<project.id>>, <<>>,
                       SuitesOf(project.id))} |->
           Bind([after \in {IF r.exc # NoExc THEN [m |-> r.m, val |-> results \o by_name \o by_prefix]
                    ELSE SearchSuites(r.m, project, r.val, 1, search_terms,
                                      results \o by_name \o by_prefix)} |->
          SearchProjects(after.m, projects, k + 1, search_terms, after.val)])])])])])

\* ', '.join(search_terms)
RECURSIVE JoinTerms(_)
JoinTerms(terms) ==
  IF terms = <<>> THEN ""
  ELSE IF Len(terms) = 1 THEN Join(terms[1])
  ELSE Join(terms[1]) \o ", " \o JoinTerms(Tail(terms))

_search_tests(m, search_terms) ==
  IF search_terms = <<>>
  THEN Ret(m, Failure(<<"No se proporcionaron términos de búsqueda">>))
  ELSE
  Bind([r1 \in {Invoke(m, "getProjects", <<>>, <<>>, m.remote.projects)} |->
     IF r1.exc # NoExc
     THEN Ret(r1.m, [action |-> "search_tests", success |-> FALSE,
                     message |-> <<"Error en la búsqueda: ", r1.exc>>])
     ELSE
  Bind([r2 \in {SearchProjects(r1.m, r1.val, 1, search_terms, <<>>)} |->
     Ret(r2.m, [action |-> "search_tests", success |-> TRUE,
                data |-> [search_terms |-> search_terms, results |-> r2.val,
                          total_found |-> Len(r2.val)],
                message |-> IF r2.val # <<>>
                            THEN <<"Se encontraron ", ToString(Len(r2.val)),
                                   " elementos relacionados con: ", JoinTerms(search_terms)>>
                            ELSE <<"No se encontraron elementos relacionados con: ",
                                   JoinTerms(search_terms)>>])])])

\* --------------------------------------------------------- the dispatcher

\* args.get(k)
Get(args, k) == IF k \in DOMAIN args THEN args[k] ELSE None

\* args.get(k, default)
GetOr(args, k, default) == IF k \in DOMAIN args THEN args[k] ELSE default

\* The first of the keys read as args[k], in reading order, that args lacks.
FirstMissing(args, keys) ==
  Bind([k \in {FirstIndex({i \in DOMAIN keys : keys[i] \notin DOMAIN args})} |->
     IF k = 0 THEN "" ELSE keys[k]])

\* A dispatch outcome: a handler outcome and the handler that ran ("" if none).
Ran(handler, h) == [m |-> h.m, exc |-> h.exc, res |-> h.res, handler |-> handler]

\* A branch of _execute_tool: a missing args[k] raises KeyError before the
\* handler is entered.
Branch(m, args, required, handler, h) ==
  IF FirstMissing(args, required) # ""
  THEN Ran("", Raise(m, KeyError(FirstMissing(args, required))))
  ELSE Ran(handler, h)

\* A dispatcher whose last branch falls back on a handler.
UnknownTool_FallsBack(m, name) == Ran("_list_projects", _list_projects(m))

\* else: return {"success": False, "message": f"Herramienta desconocida: {name}"}
UnknownTool(m, name) == Ran("", Ret(m, Failure(<<"Herramienta desconocida: ", name>>)))

_execute_tool(m, name, args) ==
  IF name = "create_project"
  THEN Branch(m, args, <<"name">>, "_create_project",
              _create_project(m, args["name"], Get(args, "prefix")))
  ELSE IF name = "list_projects"
  THEN Ran("_list_projects", _list_projects(m))
  ELSE IF name = "read_test_case"
  THEN Ran("_read_test_case",
           _read_test_case(m, Get(args, "test_case_external_id"), Get(args, "project_name")))
  ELSE IF name = "create_test_case"
  THEN Branch(m, args, <<"name">>, "_create_test_case",
              _create_test_case(m, args["name"], Get(args, "project_name"),
                                Get(args, "suite_name"), Get(args, "summary")))
  ELSE IF name = "update_test_case"
  THEN Ran("_update_test_case",
           _update_test_case(m, Get(args, "test_case_external_id"), Get(args, "project_name"),
                             args))
  ELSE IF name = "delete_test_case"
  THEN Ran("_delete_test_case",
           _delete_test_case(m, Get(args, "test_case_external_id"), Get(args, "project_name")))
  ELSE IF name = "list_test_suites"
  THEN Ran("_list_test_suites", _list_test_suites(m, Get(args, "project_name")))
  ELSE IF name = "list_test_cases_in_suite"
  THEN Ran("_list_test_cases_in_suite",
           _list_test_cases_in_suite(m, Get(args, "suite_name"), Get(args, "project_name")))
  ELSE IF name = "create_test_suite"
  THEN Branch(m, args, <<"name">>, "_create_test_suite",
              _create_test_suite(m, args["name"], Get(args, "project_name")))
  ELSE IF name = "update_test_suite"
  THEN Ran("_update_test_suite",
           _update_test_suite(m, Get(args, "suite_name"), Get(args, "project_name"), args))
  ELSE IF name = "search_tests"
  THEN Ran("_search_tests", _search_tests(m, GetOr(args, "keywords", <<>>)))
  ELSE IF name = "list_test_plans"
  THEN Ran("_list_test_plans", _list_test_plans(m, Get(args, "project_name")))
  ELSE IF name = "create_test_plan"
  THEN Branch(m, args, <<"name", "project_name">>, "_create_test_plan",
              _create_test_plan(m, args["name"], args["project_name"],
                                GetOr(args, "notes", <<>>)))
  ELSE IF name = "delete_test_plan"
  THEN Ran("_delete_test_plan",
           _delete_test_plan(m, Get(args, "plan_name"), Get(args, "project_name")))
  ELSE IF name = "get_test_cases_for_test_plan"
  THEN Ran("_get_test_cases_for_test_plan",
           _get_test_cases_for_test_plan(m, Get(args, "plan_name"), Get(args, "project_name")))
  ELSE IF name = "add_test_case_to_test_plan"
  THEN Branch(m, args, <<"case_name", "plan_name", "project_name">>, "_add_test_case_to_plan",
              _add_test_case_to_plan(m, args["case_name"], args["plan_name"],
                                     args["project_name"]))
  ELSE IF name = "list_builds"
  THEN Ran("_list_builds", _list_builds(m, Get(args, "plan_name"), Get(args, "project_name")))
  ELSE IF name = "create_build"
  THEN Branch(m, args, <<"name", "plan_name", "project_name">>, "_create_build",
              _create_build(m, args["name"], args["plan_name"], args["project_name"],
                            GetOr(args, "notes", <<>>)))
  ELSE IF name = "close_build"
  THEN Ran("_close_build",
           _close_build(m, Get(args, "build_name"), Get(args, "plan_name"),
                        Get(args, "project_name")))
  ELSE IF name = "read_test_execution"
  THEN Ran("_read_test_execution",
           _read_test_execution(m, Get(args, "test_case_external_id"), Get(args, "plan_name"),
                                Get(args, "project_name")))
  ELSE IF name = "create_test_execution"
  THEN Branch(m, args, <<"case_name", "status", "plan_name", "build_name", "project_name">>,
              "_report_test_result",
              _report_test_result(m, args["case_name"], args["status"], args["plan_name"],
                                  args["build_name"], args["project_name"],
                                  GetOr(args, "notes", <<>>)))
  ELSE IF name = "list_requirements"
  THEN Ran("_list_requirements", _list_requirements(m, Get(args, "project_name")))
  ELSE IF name = "get_requirement"
  THEN Ran("_get_requirement",
           _get_requirement(m, Get(args, "req_doc_id"), Get(args, "project_name")))
  ELSE UnknownTool(m, name)

\* ------------------------------------------------------ context retrieval

\* The [{"id", "name"}] projection of a listing.
IdNames(listing) == [i \in 1..Len(listing) |-> [id |-> listing[i].id, name |-> listing[i].name]]

\* proj_info with the sub-lists that were fetched and are not empty.
ProjInfo(p, suites, plans) ==
  Bind([base \in {[id |-> p.id, name |-> p.name, prefix |-> p.prefix]} |->
      Bind([s1 \in {IF suites # <<>> THEN [suites |-> IdNames(suites)] ELSE <<>>} |->
      Bind([s2 \in {IF plans # <<>> THEN [plans |-> IdNames(plans)] ELSE <<>>} |->
     base @@ s1 @@ s2])])])

\* A test of the mention that keeps the case of the letters.
Mentions_CaseSensitive(prompt, p) == Contains(prompt, p.name)

\* p['name'].lower() in prompt.lower()
Mentions(prompt, p) == Contains(Lower(prompt), Lower(p.name))

\* The project loop of _get_rag_context from project k on.  A failing suite
\* fetch leaves the loop (the outer except); a failing plan fetch is passed
\* over (the inner except).
RECURSIVE RagProjects(_, _, _, _, _)
RagProjects(m, projects, k, prompt, acc) ==
  IF k > Len(projects) THEN [m |-> m, val |-> acc]
  ELSE Bind([p \in {projects[k]} |->
          IF ~Mentions(prompt, p)
          THEN RagProjects(m, projects, k + 1, prompt, Append(acc, ProjInfo(p, <<>>, <<>>)))
          ELSE Bind([r1 \in {Invoke(m, "getFirstLevelTestSuitesForTestProject", <<p.id>>, <<>>,
                                SuitesOf(p.id))} |->
                   Bind([r2 \in {Invoke(r1.m, "getProjectTestPlans", <<p.id>>, <<>>,
                                PlansOf(r1.m.remote, p.id))} |->
                   Bind([plans \in {IF r2.exc # NoExc THEN <<>> ELSE r2.val} |->
                  IF r1.exc # NoExc THEN [m |-> r1.m, val |-> acc]
                  ELSE RagProjects(r2.m, projects, k + 1, prompt,
                                   Append(acc, ProjInfo(p, r1.val, plans)))])])])])

_get_rag_context(m, prompt) ==
  Bind([r \in {Invoke(m, "getProjects", <<>>, <<>>, m.remote.projects)} |->
      Bind([done \in {IF r.exc # NoExc THEN [m |-> r.m, val |-> <<>>]
              ELSE RagProjects(r.m, r.val, 1, prompt, <<>>)} |->
     [m |-> done.m, val |-> [projects |-> done.val]]])])

\* ------------------------------------------------------- the agent router

\* The fixed result of process_prompt without a model.
NoContext == [projects |-> <<>>]

Unavailable ==
  Failure(<<"Modo Agente no disponible. Configura GOOGLE_API_KEY y asegúrate de tener 'google-generativeai' instalado.">>)

NoCall == [name |-> "", args |-> <<>>]

\* part.function_call is truthy: the call names a tool or carries arguments.
IsCall(part) == part.function_call # NoCall

\* The dispatcher's part in a request: whether it was called, the handlers
\* that ran, what it raised, what it returned and the facade calls it issued.
NoTool == [dispatched |-> FALSE, handlers |-> <<>>, exc |-> NoExc, res |-> NoResult, issued |-> 0]

\* A router that retrieves the context before it looks for the model.
BeforeReply_ContextFirst(m, hasModel, prompt) ==
  Bind([g \in {_get_rag_context(m, prompt)} |->
     IF ~hasModel THEN [m |-> g.m, returned |-> TRUE, res |-> Unavailable, context |-> g.val]
     ELSE [m |-> g.m, returned |-> FALSE, res |-> NoResult, context |-> g.val]])

\* process_prompt up to the model call: without a model the fixed result is
\* returned at once; otherwise the context is retrieved for the model.
BeforeReply(m, hasModel, prompt) ==
  IF ~hasModel THEN [m |-> m, returned |-> TRUE, res |-> Unavailable, context |-> NoContext]
  ELSE Bind([g \in {_get_rag_context(m, prompt)} |->
         [m |-> g.m, returned |-> FALSE, res |-> NoResult, context |-> g.val]])

\* The outcome of the statements after the model call.
Chat(m, part) ==
  [m |-> m, exc |-> NoExc,
   res |-> [success |-> TRUE, action |-> "chat", message |-> <<part.text>>],
   tool |-> NoTool]

Executed(m, t, handlers) ==
  [m |-> t.m, exc |-> t.exc, res |-> t.res,
   tool |-> [dispatched |-> TRUE, handlers |-> handlers, exc |-> t.exc, res |-> t.res,
             issued |-> Len(t.m.calls) - Len(m.calls)]]

HandlersOf(t) == IF t.handler = "" THEN <<>> ELSE <<t.handler>>

\* A reader that executes the second part's call after the first part's.
ReadReply_EveryCall(m, reply) ==
  IF reply.parts = <<>> THEN [m |-> m, exc |-> IndexError, res |-> NoResult, tool |-> NoTool]
  ELSE IF ~IsCall(reply.parts[1]) THEN Chat(m, reply.parts[1])
  ELSE Bind([t1 \in {_execute_tool(m, reply.parts[1].function_call.name,
                                   reply.parts[1].function_call.args)} |->
       IF Len(reply.parts) > 1 /\ IsCall(reply.parts[2]) /\ t1.exc = NoExc
       THEN Bind([t2 \in {_execute_tool(t1.m, reply.parts[2].function_call.name,
                                        reply.parts[2].function_call.args)} |->
              Executed(m, t2, HandlersOf(t1) \o HandlersOf(t2))])
       ELSE Executed(m, t1, HandlersOf(t1))])

\* A reader that looks for a call in the second part when the first has none.
ReadReply_AnyCall(m, reply) ==
  IF reply.parts = <<>> THEN [m |-> m, exc |-> IndexError, res |-> NoResult, tool |-> NoTool]
  ELSE Bind([k \in {IF ~IsCall(reply.parts[1]) /\ Len(reply.parts) > 1 THEN 2 ELSE 1} |->
       IF ~IsCall(reply.parts[k]) THEN Chat(m, reply.parts[k])
       ELSE Bind([t \in {_execute_tool(m, reply.parts[k].function_call.name,
                                       reply.parts[k].function_call.args)} |->
              Executed(m, t, HandlersOf(t))])])

\* part = response.parts[0]; if part.function_call: return the tool's result;
\* else: return the chat result.
ReadReply(m, reply) ==
  IF reply.parts = <<>> THEN [m |-> m, exc |-> IndexError, res |-> NoResult, tool |-> NoTool]
  ELSE IF IsCall(reply.parts[1])
  THEN Bind([fc \in {reply.parts[1].function_call} |->
       Bind([t \in {_execute_tool(m, fc.name, fc.args)} |->
          Executed(m, t, HandlersOf(t))])])
  ELSE Chat(m, reply.parts[1])

\* A router without the except clause.
AfterReply_Unguarded(m, reply) ==
  IF reply.raised THEN [m |-> m, exc |-> ModelError, res |-> NoResult, tool |-> NoTool]
  ELSE ReadReply(m, reply)

\* process_prompt from the model's reply on, inside its try: whatever the
\* model call, the reading of the reply or the tool raises becomes a result.
AfterReply(m, reply) ==
  IF reply.raised
  THEN [m |-> m, exc |-> NoExc, res |-> Failure(<<"Error del Agente: ", ModelError>>),
        tool |-> NoTool]
  ELSE Bind([r \in {ReadReply(m, reply)} |->
       IF r.exc # NoExc
       THEN [r EXCEPT !.exc = NoExc, !.res = Failure(<<"Error del Agente: ", r.exc>>)]
       ELSE r])

\* ------------------------------------------------------------ the endpoint

\* A connect() that does not probe the client it made.
connect_Unprobed(m, url, api_key) ==
  IF api_key = "none" THEN [m |-> m, val |-> FALSE]
  ELSE Bind([r \in {Invoke([m EXCEPT !.handle = [url |-> url, key |-> api_key]],
                           "about", <<>>, <<>>, "about")} |->
         [m |-> r.m, val |-> TRUE]])

\* connect(): api_key[:5] raises on a missing key before a client is made
\* (the old handle stays); otherwise the new client replaces the handle and
\* about() probes it.  Every failure answers False.
connect(m, url, api_key) ==
  IF api_key = "none" THEN [m |-> m, val |-> FALSE]
  ELSE Bind([r \in {Invoke([m EXCEPT !.handle = [url |-> url, key |-> api_key]],
                       "about", <<>>, <<>>, "about")} |->
          [m |-> r.m, val |-> r.exc = NoExc]])

\* result.get(k) of the response envelope.
Envelope(result) ==
  [success |-> GetOr(result, "success", FALSE),
   message |-> GetOr(result, "message", <<>>),
   action_taken |-> GetOr(result, "action", "None"),
   data |-> GetOr(result, "data", "None")]

HttpError == [status |-> 500]

\* An endpoint that answers a failed result with the error status.
HttpOk_FailureIsError(result) ==
  IF GetOr(result, "success", FALSE) THEN [status |-> 200, body |-> Envelope(result)]
  ELSE HttpError

HttpOk(result) == [status |-> 200, body |-> Envelope(result)]

\* ------------------------------------------------------------ the inputs

Prompts == { <<"x">>, <<"l", " ", "a", "B">> }

ProjectArgs == { <<"a", "B">>, <<"A">> }

PlanArgs == { <<"p">>, <<"x">> }

SuiteArgs == { <<"s">>, <<"x">> }

CaseArgs == { <<"d">>, <<"A", "B", "-", "2">>, <<"x">> }

ExternalIdArgs == { <<"A", "B", "-", "1">>, <<"x">> }

StatusArgs == { <<"P", "A", "S", "S">>, <<"F", "a", "i", "l">>, <<"b">>,
                <<"u", "r", "g", "e", "n", "t">> }

NameArgs == { <<"n", " ", "d">> }

KeywordArgs == { <<<<"d">>>>, <<<<"S">>, <<"b">>>>, <<<<"b">>, <<"S">>>> }

Restrict(f, S) == [x \in S |-> f[x]]

\* The argument maps tried for a tool: every map of the given values, and
\* the map base with one argument left out or None.
Variants(full, base) ==
  full \cup {Restrict(base, DOMAIN base \ {k}) : k \in DOMAIN base}
       \cup {[base EXCEPT ![k] = None] : k \in DOMAIN base}

ToolArgs(name) ==
  CASE name = "create_project" ->
         Variants([name : NameArgs, prefix : {<<"N">>}], [name |-> <<"n", " ", "d">>, prefix |-> <<"N">>])
           \cup {[name |-> None]}
    [] name = "list_projects" -> {<<>>}
    [] name \in {"read_test_case", "delete_test_case"} ->
         Variants([test_case_external_id : ExternalIdArgs, project_name : {<<"a", "B">>}],
                  [test_case_external_id |-> <<"A", "B", "-", "1">>, project_name |-> <<"a", "B">>])
    [] name = "update_test_case" ->
         Variants([test_case_external_id : ExternalIdArgs, summary : {<<"d">>}],
                  [test_case_external_id |-> <<"A", "B", "-", "1">>, summary |-> <<"d">>])
    [] name = "create_test_case" ->
         Variants([name : NameArgs, project_name : ProjectArgs, suite_name : SuiteArgs],
                  [name |-> <<"n", " ", "d">>, project_name |-> <<"a", "B">>, suite_name |-> <<"s">>])
    [] name \in {"list_test_suites", "list_test_plans", "list_requirements"} ->
         Variants([project_name : ProjectArgs], [project_name |-> <<"a", "B">>])
    [] name = "list_test_cases_in_suite" ->
         Variants([suite_name : SuiteArgs, project_name : ProjectArgs],
                  [suite_name |-> <<"s">>, project_name |-> <<"a", "B">>])
    [] name = "create_test_suite" ->
         Variants([name : NameArgs, project_name : ProjectArgs],
                  [name |-> <<"n", " ", "d">>, project_name |-> <<"a", "B">>])
    [] name = "update_test_suite" ->
         Variants([suite_name : SuiteArgs, project_name : ProjectArgs, new_name : NameArgs],
                  [suite_name |-> <<"s">>, project_name |-> <<"a", "B">>, new_name |-> <<"n", " ", "d">>])
    [] name = "search_tests" -> {<<>>} \cup [keywords : KeywordArgs \cup {<<>>}]
    [] name = "create_test_plan" ->
         Variants([name : NameArgs, project_name : ProjectArgs],
                  [name |-> <<"n", " ", "d">>, project_name |-> <<"a", "B">>])
    [] name \in {"delete_test_plan", "get_test_cases_for_test_plan", "list_builds"} ->
         Variants([plan_name : PlanArgs, project_name : ProjectArgs],
                  [plan_name |-> <<"p">>, project_name |-> <<"a", "B">>])
    [] name = "add_test_case_to_test_plan" ->
         Variants([case_name : CaseArgs, plan_name : PlanArgs, project_name : ProjectArgs],
                  [case_name |-> <<"d">>, plan_name |-> <<"p">>, project_name |-> <<"a", "B">>])
    [] name = "create_build" ->
         Variants([name : NameArgs, plan_name : PlanArgs, project_name : ProjectArgs],
                  [name |-> <<"n", " ", "d">>, plan_name |-> <<"p">>, project_name |-> <<"a", "B">>])
    [] name = "close_build" ->
         Variants([build_name : NameArgs, plan_name : PlanArgs, project_name : ProjectArgs],
                  [build_name |-> <<"n", " ", "d">>, plan_name |-> <<"p">>, project_name |-> <<"a", "B">>])
    [] name = "read_test_execution" ->
         Variants([test_case_external_id : ExternalIdArgs, plan_name : PlanArgs,
                   project_name : ProjectArgs],
                  [test_case_external_id |-> <<"A", "B", "-", "1">>, plan_name |-> <<"p">>,
                   project_name |-> <<"a", "B">>])
    [] name = "create_test_execution" ->
         Variants([case_name : CaseArgs, status : StatusArgs, plan_name : PlanArgs,
                   build_name : NameArgs, project_name : ProjectArgs],
                  [case_name |-> <<"d">>, status |-> <<"P", "A", "S", "S">>, plan_name |-> <<"p">>,
                   build_name |-> <<"n", " ", "d">>, project_name |-> <<"a", "B">>])
    [] name = "get_requirement" ->
         Variants([req_doc_id : {<<"R">>}, project_name : ProjectArgs],
                  [req_doc_id |-> <<"R">>, project_name |-> <<"a", "B">>])
    [] OTHER -> {<<>>, [project_name |-> <<"a", "B">>]}

\* The names of the tool catalogue (_get_tools_definition).
ToolNames ==
  {"create_project", "list_projects", "read_test_case", "create_test_case",
   "update_test_case", "delete_test_case", "list_test_suites", "list_test_cases_in_suite",
   "create_test_suite", "update_test_suite", "list_test_plans", "create_test_plan",
   "delete_test_plan", "get_test_cases_for_test_plan", "add_test_case_to_test_plan",
   "list_builds", "create_build", "close_build", "read_test_execution",
   "create_test_execution", "list_requirements", "get_requirement", "search_tests"}

\* A catalogue that declares no argument required.
Required_Nothing(name) == {}

\* The "required" list the catalogue declares for a tool.
Required(name) ==
  CASE name \in {"create_project", "create_test_case"} -> {"name"}
    [] name \in {"read_test_case", "update_test_case", "delete_test_case"} ->
         {"test_case_external_id"}
    [] name \in {"list_test_suites", "list_test_plans", "list_requirements"} -> {"project_name"}
    [] name \in {"list_test_cases_in_suite", "update_test_suite"} ->
         {"suite_name", "project_name"}
    [] name \in {"create_test_suite", "create_test_plan"} -> {"name", "project_name"}
    [] name \in {"delete_test_plan", "get_test_cases_for_test_plan", "list_builds"} ->
         {"plan_name", "project_name"}
    [] name = "add_test_case_to_test_plan" -> {"case_name", "plan_name", "project_name"}
    [] name = "create_build" -> {"name", "plan_name", "project_name"}
    [] name = "close_build" -> {"build_name", "plan_name", "project_name"}
    [] name = "read_test_execution" -> {"test_case_external_id", "plan_name", "project_name"}
    [] name = "create_test_execution" ->
         {"case_name", "status", "plan_name", "build_name", "project_name"}
    [] name = "get_requirement" -> {"req_doc_id", "project_name"}
    [] name = "search_tests" -> {"keywords"}
    [] OTHER -> {}

\* Names a reply can carry that the catalogue does not hold ("None": null).
OtherNames == {"None", "delete_project"}

Calls == {[name |-> n, args |-> a] : <<n, a>> \in
            {<<x, y>> \in (ToolNames \cup OtherNames) \X UNION {ToolArgs(t) : t \in ToolNames \cup OtherNames} :
               y \in ToolArgs(x)}}

TextPart == [function_call |-> NoCall, text |-> "hola"]

CallPart(c) == [function_call |-> c, text |-> ""]

FirstCall == [name |-> "list_projects", args |-> <<>>]

SecondCall == [name |-> "delete_test_case", args |-> [test_case_external_id |-> <<"A", "B", "-", "1">>]]

\* The replies of the model: the call raises, or answers with parts.
Replies ==
  {[raised |-> TRUE, parts |-> <<>>]}
  \cup {[raised |-> FALSE, parts |-> ps] :
          ps \in {<<>>, <<TextPart>>, <<TextPart, CallPart(SecondCall)>>,
                  <<CallPart(SecondCall), TextPart>>}
                 \cup {<<CallPart(c)>> : c \in Calls}
                 \cup {<<CallPart(FirstCall), CallPart(SecondCall)>>}}

\* -------------------------------------------------------------- the state

VARIABLES
  dotenv,      \* the .env file: TESTLINK_URL, TESTLINK_API_KEY, GOOGLE_API_KEY
  model,       \* mcp_client.model is set (made once, when the module is loaded)
  tl_client,   \* mcp_client.tl_client, the handle of the remote service
  remote,      \* the data the remote service holds
  pc,          \* the request: "idle", "model" (suspended on the model call), "done"
  prompt,      \* the request's prompt
  context,     \* the context retrieved for it
  reply,       \* the model's reply
  calls,       \* the facade calls issued for the request, in order
  modelCalls,  \* the model calls made for the request
  tool,        \* the dispatcher's outcome, if it was invoked
  result,      \* what process_prompt returned
  response     \* what the endpoint answered

vars ==
  <<dotenv, model, tl_client, remote, pc, prompt, context, reply, calls, modelCalls, tool,
    result, response>>

Configs ==
  [TESTLINK_URL : {"up", "down"}, TESTLINK_API_KEY : {"valid", "invalid", "none"},
   GOOGLE_API_KEY : {"set", "none"}]

NoReply == [raised |-> FALSE, parts |-> <<>>]

NoResponse == [status |-> 0]

\* The failure plans left for a step: the calls already issued keep their
\* outcome, and a request sees at most MaxFaults planned failures.
PlansAfter(issued) ==
  {f \in FaultPlans :
     /\ \A i \in DOMAIN f : i > Len(issued)
     /\ Cardinality(DOMAIN f) + Cardinality({i \in 1..Len(issued) : issued[i].out # NoExc})
          <= MaxFaults}

\* TestLinkMCPClient.__init__: the model exists only if the key is set when
\* the module is loaded (and the model library is installed).
Init ==
  /\ dotenv \in Configs
  /\ model \in BOOLEAN
  /\ model => dotenv.GOOGLE_API_KEY = "set"
  /\ tl_client = NoClient
  /\ remote \in RemoteStates
  /\ pc = "idle"
  /\ prompt = <<>>
  /\ context = NoContext
  /\ reply = NoReply
  /\ calls = <<>>
  /\ modelCalls = 0
  /\ tool = NoTool
  /\ result = NoResult
  /\ response = NoResponse

\* process_testlink_prompt up to the model call: the configuration is read
\* again, connect() replaces and probes the handle, and process_prompt
\* answers at once without a model or retrieves the context and calls the
\* model.
ReceivePrompt ==
  /\ pc = "idle"
  /\ \E p \in Prompts, plan \in PlansAfter(<<>>) :
     \E c \in {connect([remote |-> remote, handle |-> tl_client, calls |-> <<>>, plan |-> plan],
                        dotenv.TESTLINK_URL, dotenv.TESTLINK_API_KEY)} :
     \E b \in {IF c.val THEN BeforeReply(c.m, model, p)
                ELSE [m |-> c.m, returned |-> FALSE, res |-> NoResult, context |-> NoContext]} :
          /\ prompt' = p
          /\ tl_client' = b.m.handle
          /\ calls' = b.m.calls
          /\ remote' = b.m.remote
          /\ context' = b.context
          /\ result' = b.res
          /\ IF ~c.val
             THEN /\ pc' = "done"
                  /\ response' = HttpError
                  /\ UNCHANGED modelCalls
             ELSE IF b.returned
             THEN /\ pc' = "done"
                  /\ response' = HttpOk(b.res)
                  /\ UNCHANGED modelCalls
             ELSE /\ pc' = "model"
                  /\ modelCalls' = modelCalls + 1
                  /\ UNCHANGED response
  /\ UNCHANGED <<dotenv, model, reply, tool>>

\* process_prompt from the model's reply to the endpoint's answer.
ModelReply ==
  /\ pc = "model"
  /\ \E r \in Replies, plan \in PlansAfter(calls) :
     \E a \in {AfterReply([remote |-> remote, handle |-> tl_client, calls |-> calls, plan |-> plan], r)} :
          /\ reply' = r
          /\ remote' = a.m.remote
          /\ calls' = a.m.calls
          /\ tool' = a.tool
          /\ result' = IF a.exc # NoExc THEN NoResult ELSE a.res
          /\ response' = IF a.exc # NoExc THEN HttpError ELSE HttpOk(a.res)
  /\ pc' = "done"
  /\ UNCHANGED <<dotenv, model, tl_client, prompt, context, modelCalls>>

\* The next request begins.
NextRequest ==
  /\ pc = "done"
  /\ pc' = "idle"
  /\ prompt' = <<>>
  /\ context' = NoContext
  /\ reply' = NoReply
  /\ calls' = <<>>
  /\ modelCalls' = 0
  /\ tool' = NoTool
  /\ result' = NoResult
  /\ response' = NoResponse
  /\ UNCHANGED <<dotenv, model, tl_client, remote>>

\* Someone changes the remote service's data.
RemoteChange ==
  /\ pc = "idle"
  /\ remote' \in RemoteStates \ {remote}
  /\ UNCHANGED <<dotenv, model, tl_client, pc, prompt, context, reply, calls, modelCalls, tool,
                 result, response>>

\* Someone edits the .env file.
ConfigChange ==
  /\ pc = "idle"
  /\ dotenv' \in Configs \ {dotenv}
  /\ UNCHANGED <<model, tl_client, remote, pc, prompt, context, reply, calls, modelCalls, tool,
                 result, response>>

Next == ReceivePrompt \/ ModelReply \/ NextRequest \/ RemoteChange \/ ConfigChange

Spec == Init /\ [][Next]_vars

\* ------------------------------------------------------ concurrent requests

\* Someone edits the TestLink settings of the .env file while a request waits
\* for the model.
ConfigChangeSuspended ==
  /\ pc = "model"
  /\ dotenv' \in {c \in Configs : c.GOOGLE_API_KEY = dotenv.GOOGLE_API_KEY} \ {dotenv}
  /\ UNCHANGED <<model, tl_client, remote, pc, prompt, context, reply, calls, modelCalls, tool,
                 result, response>>

\* Another request runs the endpoint while this one waits at
\* send_message_async: it reads the .env file, connects on the one mcp_client
\* of the process and builds its context, up to its own answer or model call.
OtherRequest ==
  /\ pc = "model"
  /\ \E p \in Prompts, plan \in PlansAfter(<<>>) :
     \E c \in {connect([remote |-> remote, handle |-> tl_client, calls |-> <<>>, plan |-> plan],
                        dotenv.TESTLINK_URL, dotenv.TESTLINK_API_KEY)} :
     \E b \in {IF c.val THEN BeforeReply(c.m, model, p)
                ELSE [m |-> c.m, returned |-> FALSE, res |-> NoResult, context |-> NoContext]} :
          /\ tl_client' = b.m.handle
          /\ remote' = b.m.remote
  /\ UNCHANGED <<dotenv, model, pc, prompt, context, reply, calls, modelCalls, tool, result,
                 response>>

\* Another request, suspended at its own model call, gets its reply while this
\* one still waits: its tool runs on the handle mcp_client holds now.
OtherReply ==
  /\ pc = "model"
  /\ \E r \in Replies, plan \in PlansAfter(<<>>) :
     \E a \in {AfterReply([remote |-> remote, handle |-> tl_client, calls |-> <<>>,
                            plan |-> plan], r)} :
          remote' = a.m.remote
  /\ UNCHANGED <<dotenv, model, tl_client, pc, prompt, context, reply, calls, modelCalls, tool,
                 result, response>>

\* The service starts with a model and a TestLink configuration that connects,
\* the remote service holding both projects and both plans.
ConcurrentInit ==
  /\ Init
  /\ model
  /\ dotenv.TESTLINK_URL = "up"
  /\ dotenv.TESTLINK_API_KEY = "valid"
  /\ remote = [projects |-> <<PA, PB>>, plans |-> <<PlanP, PlanD>>]

ConcurrentNext ==
  \/ ReceivePrompt
  \/ ModelReply
  \/ NextRequest
  \/ ConfigChangeSuspended
  \/ OtherRequest
  \/ OtherReply

ConcurrentSpec == ConcurrentInit /\ [][ConcurrentNext]_vars

\* ------------------------------------------------- the demo keyword router

\* The most words of a prompt sent to the demo service.
MaxWords == 3

\* The words the prompts of the demo service are made of.
DemoWords ==
  { <<"b", "u", "s", "c", "a", "r">>, <<"q", "u", "é">>,
    <<"L", "i", "s", "t", "a", "r", " ", "P", "r", "o", "y", "e", "c", "t", "o", "s">>,
    <<"l", "i", "s", "t", " ", "p", "r", "o", "j", "e", "c", "t", "s">>,
    <<"c", "r", "e", "a", "r", " ", "p", "r", "o", "y", "e", "c", "t", "o">>,
    <<"c", "a", "s", "o", "s">>, <<"t", "e", "s", "t">> }

RECURSIVE JoinWords(_)
JoinWords(words) ==
  IF words = <<>> THEN <<>>
  ELSE IF Len(words) = 1 THEN words[1]
  ELSE words[1] \o <<" ">> \o JoinWords(Tail(words))

DemoPrompts == {JoinWords(w) : w \in UNION {[1..n -> DemoWords] : n \in 0..MaxWords}}

MOCK_PROJECTS ==
  << [id |-> "1", name |-> "DEMO PROJECT", prefix |-> "DEMO", active |-> "1",
      notes |-> "Proyecto de demostración"] >>

MOCK_TEST_CASES ==
  << [id |-> "1", name |-> "Test Login Functionality",
      summary |-> "Verificar que el usuario puede iniciar sesión correctamente",
      project |-> "DEMO PROJECT", suite |-> "Authentication Tests"],
     [id |-> "2", name |-> "Test Password Reset",
      summary |-> "Verificar que el usuario puede restablecer su contraseña",
      project |-> "DEMO PROJECT", suite |-> "Authentication Tests"] >>

\* process_testlink_prompt of the demo service: the first rule whose keyword
\* the lower-cased prompt holds gives the answer.
process_testlink_prompt(request) ==
  Bind([prompt_lower \in {Lower(request)} |->
     IF \/ Contains(prompt_lower, <<"l", "i", "s", "t", "a", "r", " ", "p", "r", "o", "y", "e", "c", "t", "o", "s">>)
        \/ Contains(prompt_lower, <<"l", "i", "s", "t", " ", "p", "r", "o", "j", "e", "c", "t", "s">>)
     THEN [success |-> TRUE, action_taken |-> "list_projects", data |-> MOCK_PROJECTS,
           message |-> <<"Se encontraron ", ToString(Len(MOCK_PROJECTS)), " proyectos">>]
     ELSE IF \/ Contains(prompt_lower, <<"c", "a", "s", "o", "s">>)
             \/ Contains(prompt_lower, <<"p", "r", "u", "e", "b", "a", "s">>)
             \/ Contains(prompt_lower, <<"t", "e", "s", "t">>)
     THEN [success |-> TRUE, action_taken |-> "list_test_cases", data |-> MOCK_TEST_CASES,
           message |-> <<"Se encontraron ", ToString(Len(MOCK_TEST_CASES)), " casos de prueba">>]
     ELSE IF Contains(prompt_lower, <<"c", "r", "e", "a", "r", " ", "p", "r", "o", "y", "e", "c", "t", "o">>)
     THEN [success |-> TRUE, action_taken |-> "create_project",
           data |-> [id |-> "2", name |-> "Nuevo Proyecto", status |-> "created"],
           message |-> <<"Proyecto creado exitosamente (modo demo)">>]
     ELSE [success |-> TRUE, action_taken |-> "help",
           data |-> [available_commands |->
                       <<"listar proyectos", "casos de prueba", "crear proyecto [nombre]">>],
           message |-> <<"API funcionando en modo demo. Comandos disponibles: 'listar proyectos', 'casos de prueba', 'crear proyecto [nombre]'">>]])

\* The demo service starts; the agent service is not part of it.
DemoInit ==
  /\ dotenv = [TESTLINK_URL |-> "down", TESTLINK_API_KEY |-> "none", GOOGLE_API_KEY |-> "none"]
  /\ model = FALSE
  /\ tl_client = NoClient
  /\ remote = [projects |-> <<>>, plans |-> <<>>]
  /\ pc = "idle"
  /\ prompt = <<>>
  /\ context = NoContext
  /\ reply = NoReply
  /\ calls = <<>>
  /\ modelCalls = 0
  /\ tool = NoTool
  /\ result = NoResult
  /\ response = NoResponse

\* The demo service answers a prompt.
DemoPrompt ==
  /\ \E p \in DemoPrompts :
       /\ prompt' = p
       /\ response' = [status |-> 200, body |-> process_testlink_prompt(p)]
  /\ UNCHANGED <<dotenv, model, tl_client, remote, pc, context, reply, calls, modelCalls, tool,
                 result>>

DemoNext == DemoPrompt

DemoSpec == DemoInit /\ [][DemoNext]_vars

\* --------------------------------------------------------- the properties

\* The request has been answered.
Answered == pc = "done"

\* The call the dispatcher was given.
Dispatched == reply.parts[1].function_call

\* C1: for every tool name and argument map, _execute_tool returns one result
\* with a boolean success and raises nothing to its caller.
C1_DispatcherNeverRaises ==
  tool.dispatched =>
    /\ tool.exc = NoExc
    /\ "success" \in DOMAIN tool.res
    /\ tool.res.success \in BOOLEAN

\* C2: a tool name outside the catalogue is answered with success false and
\* the unknown-tool message; no handler runs and the dispatcher issues no
\* facade call.
C2_UnknownToolRefused ==
  tool.dispatched /\ Dispatched.name \notin ToolNames =>
    /\ tool.exc = NoExc
    /\ tool.res = Failure(<<"Herramienta desconocida: ", Dispatched.name>>)
    /\ tool.handlers = <<>>
    /\ tool.issued = 0
    /\ result = tool.res

C2_Witness ==
  /\ tool.dispatched
  /\ Dispatched.name = "delete_project"
  /\ Dispatched.args # <<>>
  /\ response = HttpOk(Failure(<<"Herramienta desconocida: ", "delete_project">>))

\* connect() answered True: the probe was issued and did not fail.
Connected == calls # <<>> /\ calls[1].out = NoExc

\* The model was called in this request.
ModelCalled == modelCalls > 0

\* The facade calls of context retrieval: after the probe, before the tool's.
ContextCalls == 2..(Len(calls) - tool.issued)

\* The facade calls of the dispatcher.
ToolCalls == (Len(calls) - tool.issued + 1)..Len(calls)

\* C3, as stated: with a model configured, an exception raised while the
\* context is built, the model is called, the reply is read or the tool is
\* executed makes the result success false, and process_prompt raises nothing.
C3_EveryExceptionFailsResult ==
  Answered /\ ModelCalled =>
    /\ "success" \in DOMAIN result
    /\ \/ \E i \in ContextCalls : calls[i].out # NoExc
       \/ reply.raised
       \/ reply.parts = <<>>
       \/ tool.exc # NoExc
       => result.success = FALSE

\* C3, amended: process_prompt raises nothing; an exception of the model
\* call, of reading the reply or of the tool makes the result success false
\* with the agent-error message; a failed fetch of context retrieval is
\* absorbed there and leaves the result to the reply.
C3_AgentNeverRaises ==
  Answered /\ ModelCalled =>
    /\ "success" \in DOMAIN result
    /\ result.success \in BOOLEAN
    /\ response = HttpOk(result)
    /\ reply.raised => result = Failure(<<"Error del Agente: ", ModelError>>)
    /\ ~reply.raised /\ reply.parts = <<>> =>
         result = Failure(<<"Error del Agente: ", IndexError>>)
    /\ tool.exc # NoExc => result = Failure(<<"Error del Agente: ", tool.exc>>)
    /\ (\E i \in ContextCalls : calls[i].out # NoExc)
         /\ ~reply.raised /\ reply.parts # <<>> /\ ~IsCall(reply.parts[1]) =>
         result.success

C3_Witness ==
  /\ Answered
  /\ tool.exc = AttributeError
  /\ result = Failure(<<"Error del Agente: ", AttributeError>>)
  /\ response.body.success = FALSE

\* C4: without a model the agent router answers the fixed unavailable result
\* and does nothing else: no facade call beyond the endpoint's connection
\* probe, no context, no model call, no tool.
C4_NoModelNoCalls ==
  Answered /\ Connected /\ ~model =>
    /\ result = Unavailable
    /\ result.success = FALSE
    /\ response = HttpOk(Unavailable)
    /\ Len(calls) = 1 /\ calls[1].op = "about"
    /\ context = NoContext
    /\ modelCalls = 0
    /\ tool = NoTool

C4_Witness ==
  /\ Answered /\ Connected /\ ~model
  /\ dotenv.GOOGLE_API_KEY = "none"
  /\ remote.projects # <<>>
  /\ response.body.success = FALSE

\* C5: a request calls the model for one turn and runs at most one handler,
\* whose result is the request's result, whatever the reply holds.
C5_OneTurnOneTool ==
  Answered /\ ModelCalled =>
    /\ modelCalls = 1
    /\ Len(tool.handlers) <= 1
    /\ tool.dispatched /\ tool.exc = NoExc => result = tool.res

C5_Witness ==
  /\ Answered
  /\ reply.parts = <<CallPart(FirstCall), CallPart(SecondCall)>>
  /\ tool.handlers = <<"_list_projects">>
  /\ result = tool.res
  /\ \A i \in DOMAIN calls : calls[i].op # "updateTestCase"

\* The request issued no state-changing facade operation.
NoWrites == \A i \in DOMAIN calls : calls[i].op \notin WriteOps

\* C6, as stated: a reply that holds no tool invocation gives the chat result
\* with the reply's text, and the request issues no state-changing operation.
C6_NoCallMeansChat ==
  Answered /\ ModelCalled /\ ~reply.raised
    /\ (\A i \in DOMAIN reply.parts : ~IsCall(reply.parts[i])) =>
    /\ reply.parts # <<>>
    /\ result = [success |-> TRUE, action |-> "chat", message |-> <<reply.parts[1].text>>]
    /\ NoWrites

\* C6, amended: when the first part of the reply carries no tool invocation,
\* the result is the chat result with that part's text, no tool runs and no
\* state-changing operation is issued, whatever the later parts hold; a
\* reply without parts gives a failed result, also without any such operation.
C6_TextFirstMeansChat ==
  Answered /\ ModelCalled /\ ~reply.raised =>
    /\ reply.parts # <<>> /\ ~IsCall(reply.parts[1]) =>
         /\ result = [success |-> TRUE, action |-> "chat", message |-> <<reply.parts[1].text>>]
         /\ response.body.action_taken = "chat"
         /\ tool = NoTool
         /\ NoWrites
    /\ reply.parts = <<>> =>
         /\ result = Failure(<<"Error del Agente: ", IndexError>>)
         /\ tool = NoTool
         /\ NoWrites

C6_Witness ==
  /\ Answered /\ ModelCalled
  /\ reply.parts = <<TextPart, CallPart(SecondCall)>>
  /\ result.success /\ result.message = <<"hola">>
  /\ Len(calls) > 2

C8_ConnectivityFailureFailsRequest ==
  Answered /\ (\E i \in DOMAIN calls : calls[i].out = ConnErr) => response = HttpError

\* C8, amended: a connectivity failure of the probe of connect() ends the
\* request with the error status before anything else is called; one in a
\* later facade call is caught on the way and the request is answered with a
\* result envelope.
C8_OnlyConnectPropagates ==
  Answered =>
    /\ calls # <<>> /\ calls[1].out = ConnErr => response = HttpError /\ Len(calls) = 1
    /\ (\E i \in 2..Len(calls) : calls[i].out = ConnErr) =>
         /\ response = HttpOk(result)
         /\ result.success \in BOOLEAN

C8_Witness ==
  /\ Answered
  /\ \E i \in ToolCalls : calls[i].op = "getProjectTestPlans" /\ calls[i].out = ConnErr
  /\ response.status = 200
  /\ response.body.message = <<"Plan no encontrado">>

\* The reply's call supplies a project name that no listed project bears.
UnknownProject ==
  /\ "project_name" \in DOMAIN Dispatched.args
  /\ Dispatched.args.project_name # None
  /\ \A i \in DOMAIN remote.projects :
       Lower(remote.projects[i].name) # Lower(Dispatched.args.project_name)

\* No facade call of the request failed.
NoFailure == \A i \in DOMAIN calls : calls[i].out = NoExc

\* The handlers C9 is checked on: each is handed the project name.
C9Handlers ==
  {"_create_test_case", "_create_test_suite", "_read_test_execution",
   "_get_test_cases_for_test_plan", "_list_builds", "_list_requirements"}

\* What a result says when the project was not found.
ProjectNotFound ==
  {"Proyecto no encontrado", "Proyecto '", "No hay proyectos disponibles.",
   "No hay proyectos disponibles"}

\* C9 (for the project name): a handler given a project name that resolves
\* to nothing answers success false with a project-not-found message and
\* calls the facade for nothing but the project listing.
C9_UnresolvedNameRefused ==
  Answered /\ tool.dispatched /\ UnknownProject /\ NoFailure
    /\ tool.handlers # <<>> /\ tool.handlers[1] \in C9Handlers =>
    /\ tool.exc = NoExc
    /\ tool.res.success = FALSE
    /\ tool.res.message[1] \in ProjectNotFound
    /\ \A i \in ToolCalls : calls[i].op = "getProjects"

\* C10 (for the state-changing operations): when the operation a handler
\* issues after resolving its names fails, the result is success false and
\* its message holds the text of the failure.
C10_FailureCarriesCause ==
  Answered /\ tool.handlers # <<>> /\ tool.issued > 0
    /\ calls[Len(calls)].op \in WriteOps /\ calls[Len(calls)].out # NoExc =>
    /\ tool.exc = NoExc
    /\ tool.res.success = FALSE
    /\ calls[Len(calls)].out \in Range(tool.res.message)

\* The status of the reply's create_test_execution call, and the code the
\* accepted statuses stand for.
ReportedStatus == Dispatched.args.status

CodeOf(status) ==
  IF Lower(status) \in {<<"p", "a", "s", "s">>, <<"p">>} THEN "p"
  ELSE IF Lower(status) \in {<<"f", "a", "i", "l">>, <<"f">>} THEN "f"
  ELSE IF Lower(status) \in {<<"b", "l", "o", "c", "k", "e", "d">>, <<"b">>} THEN "b"
  ELSE "None"

\* C11: report_test_result, given a status as text, sends pass, fail and
\* blocked (in any case) to the facade as p, f and b and the short codes as
\* they are; any other status is refused with the message that lists pass,
\* fail, blocked before any facade call; the code sent is one of p, f, b.
C11_StatusValidated ==
  Answered /\ tool.handlers = <<"_report_test_result">> /\ ReportedStatus # None =>
    /\ CodeOf(ReportedStatus) = "None" =>
         /\ tool.res = Failure(<<"Estado inválido. Usar: pass, fail, blocked">>)
         /\ tool.issued = 0
    /\ \A i \in ToolCalls : calls[i].op = "reportTCResult" =>
         /\ calls[i].ref[2] \in {"p", "f", "b"}
         /\ calls[i].ref[2] = CodeOf(ReportedStatus)
    /\ CodeOf(ReportedStatus) # "None" => tool.issued > 0

C11_Witness ==
  /\ Answered /\ tool.handlers = <<"_report_test_result">>
  /\ ReportedStatus = <<"F", "a", "i", "l">>
  /\ calls[Len(calls)].op = "reportTCResult" /\ calls[Len(calls)].ref[2] = "f"
  /\ tool.res.success

\* C12: a call of delete_project or close_build is answered success false
\* with a message and the action tag of the refused operation, and issues no
\* facade call.
C12_RefusalsTagged ==
  Answered /\ tool.dispatched /\ Dispatched.name \in {"delete_project", "close_build"} =>
    /\ tool.exc = NoExc
    /\ tool.res.success = FALSE
    /\ tool.res.message # <<>>
    /\ tool.issued = 0
    /\ "action" \in DOMAIN tool.res
    /\ tool.res.action = Dispatched.name
    /\ response.body.action_taken = Dispatched.name

\* C13: delete_test_case issues exactly one facade call, an update of the
\* named case that sets it inactive, and no request ever issues a deletion of
\* a test case or of a project.
HardDeletes == {"deleteTestCase", "deleteTestProject"}

FailedToolCalls == {i \in ToolCalls : calls[i].out # NoExc}

C14_FailedCallFailsOnce ==
  /\ Cardinality({i \in DOMAIN calls : calls[i].op \in WriteOps}) <= 1
  /\ \A i \in FailedToolCalls : \A j \in ToolCalls :
        i < j => ~(/\ calls[j].op = calls[i].op
                   /\ calls[j].on = calls[i].on
                   /\ calls[j].ref = calls[i].ref)
  /\ Answered /\ tool.dispatched /\ FailedToolCalls # {} =>
        ~GetOr(result, "success", FALSE)

\* The context has been retrieved from a project listing that was answered.
Retrieved ==
  pc = "model" /\ Len(calls) >= 2 /\ calls[2].op = "getProjects" /\ calls[2].out = NoExc

\* The deep-retrieval fetch op of project pid failed.
FetchFailed(op, pid) ==
  \E i \in 3..Len(calls) : calls[i].op = op /\ calls[i].on = <<pid>> /\ calls[i].out # NoExc

\* C15: when a suite or plan fetch of context retrieval fails for a mentioned
\* project, the context still holds every project of the listing with its id,
\* name and prefix, the project of the failed fetch without that sub-list.
C15_FetchFailureSwallowed ==
  Retrieved =>
    /\ Len(context.projects) = Len(remote.projects)
    /\ \A k \in 1..Len(remote.projects) :
         /\ context.projects[k].id = remote.projects[k].id
         /\ context.projects[k].name = remote.projects[k].name
         /\ context.projects[k].prefix = remote.projects[k].prefix
         /\ FetchFailed("getFirstLevelTestSuitesForTestProject", remote.projects[k].id)
              => "suites" \notin DOMAIN context.projects[k]
         /\ FetchFailed("getProjectTestPlans", remote.projects[k].id)
              => "plans" \notin DOMAIN context.projects[k]

\* No call of the request so far failed.
NoFetchFailed == \A i \in 1..Len(calls) : calls[i].out = NoExc

\* The prompt holds the name as a substring, whatever the case of the letters.
NameInPrompt(name) == Contains(Lower(prompt), Lower(name))

\* The deep-retrieval fetches of project pid, by their place in the call log.
FetchesOf(op, pid) == {i \in 3..Len(calls) : calls[i].op = op /\ calls[i].on = <<pid>>}

\* C16, as stated: when no fetch fails the context holds one entry with id,
\* name and prefix per remote project, in listing order; the entry carries
\* suites and plans exactly when the prompt mentions the project's name, and
\* no fetch is issued for a project that is not mentioned.
C16_NestedIffMentioned ==
  Retrieved /\ NoFetchFailed =>
    /\ Len(context.projects) = Len(remote.projects)
    /\ \A k \in 1..Len(remote.projects) :
         /\ context.projects[k].id = remote.projects[k].id
         /\ context.projects[k].name = remote.projects[k].name
         /\ context.projects[k].prefix = remote.projects[k].prefix
         /\ NameInPrompt(remote.projects[k].name)
              <=> {"suites", "plans"} \subseteq DOMAIN context.projects[k]
         /\ ~NameInPrompt(remote.projects[k].name) =>
              /\ FetchesOf("getFirstLevelTestSuitesForTestProject", remote.projects[k].id) = {}
              /\ FetchesOf("getProjectTestPlans", remote.projects[k].id) = {}

\* C16, amended: as above, but a mentioned project's entry carries the
\* suites (the plans) only when the fetched listing is not empty; each
\* mentioned project is fetched once for suites and once for plans.
C16_NestedWhenMentionedAndListed ==
  Retrieved /\ NoFetchFailed =>
    /\ Len(context.projects) = Len(remote.projects)
    /\ \A k \in 1..Len(remote.projects) :
        \E p \in {remote.projects[k]}, e \in {context.projects[k]} :
         /\ e.id = p.id /\ e.name = p.name /\ e.prefix = p.prefix
         /\ DOMAIN e \subseteq {"id", "name", "prefix", "suites", "plans"}
         /\ "suites" \in DOMAIN e <=> NameInPrompt(p.name) /\ SuitesOf(p.id) # <<>>
         /\ "suites" \in DOMAIN e => e.suites = IdNames(SuitesOf(p.id))
         /\ "plans" \in DOMAIN e <=> NameInPrompt(p.name) /\ PlansOf(remote, p.id) # <<>>
         /\ "plans" \in DOMAIN e => e.plans = IdNames(PlansOf(remote, p.id))
         /\ Cardinality(FetchesOf("getFirstLevelTestSuitesForTestProject", p.id))
              = IF NameInPrompt(p.name) THEN 1 ELSE 0
         /\ Cardinality(FetchesOf("getProjectTestPlans", p.id))
              = IF NameInPrompt(p.name) THEN 1 ELSE 0

C16_Witness ==
  /\ Retrieved /\ NoFetchFailed
  /\ remote.projects = <<PA, PB>> /\ remote.plans = <<PlanP, PlanD>>
  /\ {"suites", "plans"} \subseteq DOMAIN context.projects[1]
  /\ DOMAIN context.projects[2] = {"id", "name", "prefix"}

\* The machine a lookup runs on in the current state, its first facade call
\* failing as the plan says.
LookupOn(plan) == [remote |-> remote, handle |-> tl_client, calls |-> <<>>, plan |-> plan]

\* No failure, or the failure of the first facade call.
FirstCallPlans == {f \in FaultPlans : DOMAIN f \subseteq {1}}

\* C17: on a connected handle every lookup of the resolver, for every name
\* and whether or not its facade call fails, returns a reference or not-found
\* and raises nothing to its caller.
C17_ResolversTotal ==
  Connected /\ HandleFault(tl_client) = NoExc =>
    \A plan \in FirstCallPlans :
      /\ \A name \in ProjectArgs : _get_project_id_by_name(LookupOn(plan), name).exc = NoExc
      /\ \A id \in {0, 1, 2} : _get_project_prefix(LookupOn(plan), id).exc = NoExc
      /\ \A name \in PlanArgs : _get_plan_id_by_name(LookupOn(plan), name, 1).exc = NoExc
      /\ \A name \in SuiteArgs : _get_suite_id_by_name(LookupOn(plan), name, 1).exc = NoExc
      /\ \A name \in CaseArgs : _find_case_by_name(LookupOn(plan), name, 1).exc = NoExc

\* C18: the result of every handler that ran carries success, message and
\* the action tag of the dispatched tool, and the envelope's action_taken
\* names that tool.
C18_ResultCarriesAction ==
  Answered /\ tool.dispatched /\ tool.handlers # <<>> /\ tool.exc = NoExc =>
    /\ {"action", "success", "message"} \subseteq DOMAIN tool.res
    /\ tool.res.action = Dispatched.name
    /\ response.body.action_taken = Dispatched.name

\* The orderings of a list of terms.
Orderings(terms) ==
  {[i \in DOMAIN terms |-> terms[f[i]]] : f \in Permutations(DOMAIN terms)}

\* The machine the dispatched tool started on: the calls issued before it,
\* and for its own calls the failures the log shows.
AtToolStart ==
  [remote |-> remote, handle |-> tl_client,
   calls |-> SubSeq(calls, 1, Len(calls) - tool.issued),
   plan |-> [i \in FailedToolCalls |-> calls[i].out]]

\* The terms the search was dispatched with.
SearchedTerms == GetOr(Dispatched.args, "keywords", <<>>)

\* C19: a search that ran answers, for every ordering of its terms, with the
\* same result entries in the same order (and the same success).
C19_SearchOrderIndependent ==
  Answered /\ tool.handlers = <<"_search_tests">> /\ tool.exc = NoExc =>
    \A terms \in Orderings(SearchedTerms) :
      \E again \in {_search_tests(AtToolStart, terms)} :
        /\ again.exc = NoExc
        /\ again.res.success = tool.res.success
        /\ again.m.calls = calls
        /\ tool.res.success =>
             /\ again.res.data.results = tool.res.data.results
             /\ again.res.data.total_found = tool.res.data.total_found

C19_Witness ==
  /\ Answered /\ tool.handlers = <<"_search_tests">> /\ tool.exc = NoExc
  /\ SearchedTerms = << <<"S">>, <<"b">> >>
  /\ tool.res.success /\ Len(tool.res.data.results) >= 3
  /\ _search_tests(AtToolStart, << <<"b">>, <<"S">> >>).res.data.results = tool.res.data.results

\* The id of the first entry of a listing that bears the name, whatever the
\* case of the letters; 0 if none does.
CurrentId(listing, name) ==
  IF \A i \in DOMAIN listing : Lower(listing[i].name) # Lower(name) THEN 0
  ELSE listing[CHOOSE i \in DOMAIN listing :
                 /\ Lower(listing[i].name) = Lower(name)
                 /\ \A j \in 1..(i - 1) : Lower(listing[j].name) # Lower(name)].id

\* A request that listed the builds of a named plan of a named project, none
\* of the tool's facade calls failing.
BuildsListed ==
  /\ Answered /\ tool.handlers = <<"_list_builds">> /\ FailedToolCalls = {}
  /\ Get(Dispatched.args, "project_name") # None
  /\ Get(Dispatched.args, "plan_name") # None

\* C20: in every request, whatever requests and remote changes came before,
\* the project and the plan are resolved by reading the listings again, and
\* the ids used are those of the remote data at the time of the request.
C20_ResolvesAgainstCurrentListing ==
  BuildsListed =>
    \E first \in {Len(calls) - tool.issued + 1},
       pid \in {CurrentId(remote.projects, Dispatched.args.project_name)} :
    \E plan \in {CurrentId(PlansOf(remote, pid), Dispatched.args.plan_name)} :
      /\ tool.issued >= 2
      /\ calls[first].op = "getProjects"
      /\ calls[first + 1].op = "getProjectTestPlans" /\ calls[first + 1].on = <<pid>>
      /\ plan = 0 <=> tool.res = Failure(<<"Plan no encontrado">>)
      /\ plan # 0 =>
           /\ tool.res.success
           /\ calls[Len(calls)].op = "getBuildsForTestPlan"
           /\ calls[Len(calls)].on = <<plan>>

C20_Witness ==
  /\ BuildsListed
  /\ remote.projects = <<PB, PA>> /\ remote.plans = <<PlanP, PlanD>>
  /\ Dispatched.args.project_name = <<"a", "B">> /\ Dispatched.args.plan_name = <<"p">>
  /\ calls[Len(calls)].op = "getBuildsForTestPlan" /\ calls[Len(calls)].on = <<21>>
  /\ tool.res.success

\* The place in the call log of the tool's first facade call.
FirstToolCall == Len(calls) - tool.issued + 1

\* add_test_case_to_test_plan found its project and its plan and went on to
\* resolve the case it was given by name.
CaseResolved ==
  /\ Answered /\ tool.handlers = <<"_add_test_case_to_plan">> /\ tool.exc = NoExc
  /\ Get(Dispatched.args, "case_name") # None
  /\ tool.issued >= 2
  /\ calls[FirstToolCall].out = NoExc /\ calls[FirstToolCall + 1].out = NoExc
  /\ tool.res \notin {Failure(<<"Proyecto no encontrado">>), Failure(<<"Plan no encontrado">>)}

\* The calls of the case resolution, by operation.
ResolutionCalls(ops) == {i \in (FirstToolCall + 2)..Len(calls) : calls[i].op \in ops}

DirectOps == {"getTestCase"}

ScanOps == {"getFirstLevelTestSuitesForTestProject", "getTestCasesForTestSuite"}

\* C24: for a name holding '-' the lookup by external id is the first call of
\* the case resolution, and the suite scan runs only if that lookup failed or
\* answered nothing; for a name without '-' no lookup by external id is
\* issued and the scan starts at once.
C24_DirectLookupFirst ==
  CaseResolved =>
    \E name \in {Dispatched.args.case_name} :
      IF Contains(name, <<"-">>)
      THEN /\ ResolutionCalls(DirectOps) = {FirstToolCall + 2}
           /\ calls[FirstToolCall + 2].ref = <<name>>
           /\ ResolutionCalls(ScanOps) # {}
                <=> calls[FirstToolCall + 2].out # NoExc \/ CaseByExternalId(name) = <<>>
      ELSE /\ ResolutionCalls(DirectOps) = {}
           /\ calls[FirstToolCall + 2].op = "getFirstLevelTestSuitesForTestProject"

C24_Witness ==
  /\ CaseResolved
  /\ Dispatched.args.case_name = <<"A", "B", "-", "2">>
  /\ calls[FirstToolCall + 2].op = "getTestCase" /\ calls[FirstToolCall + 2].out # NoExc
  /\ calls[FirstToolCall + 3].op = "getFirstLevelTestSuitesForTestProject"

\* The cases of the resolved project that bear the name, whatever the case
\* of the letters.
NamedExactly(name) == {c \in Range(AllCases) : Lower(c.name) = Lower(name)}

\* C25: when the project holds a case whose name equals the input ignoring
\* case, the case that is resolved (and added to the plan) bears that name.
C25_ExactNameWins ==
  /\ CaseResolved /\ FailedToolCalls = {}
  /\ calls[FirstToolCall + 1].on = <<PA.id>>
  /\ NamedExactly(Dispatched.args.case_name) # {}
  => /\ calls[Len(calls)].op = "addTestCaseToTestPlan"
     /\ calls[Len(calls)].on[3] \in {c.id : c \in NamedExactly(Dispatched.args.case_name)}

\* The cases of the listed suites, suite after suite.
RECURSIVE CasesInOrder(_)
CasesInOrder(suites) ==
  IF suites = <<>> THEN <<>>
  ELSE CasesOf(Head(suites).id) \o CasesInOrder(Tail(suites))

\* The cases of the project, in that order, whose name equals the input
\* ignoring case or whose summary holds the input.
MatchesInOrder(name, pid) ==
  SelectSeq(CasesInOrder(SuitesOf(pid)),
            LAMBDA c : Lower(c.name) = Lower(name) \/ Contains(c.summary, name))

\* The id of the first of them, 0 if there is none.
FirstMatch(name, pid) ==
  IF MatchesInOrder(name, pid) = <<>> THEN 0 ELSE MatchesInOrder(name, pid)[1].id

\* The case resolution went to the suite scan.
Scanned == CaseResolved /\ ResolutionCalls(ScanOps) # {}

ScanFailed == \E i \in ResolutionCalls(ScanOps) : calls[i].out # NoExc

CaseNotFound == Failure(<<"Caso '", Show(Dispatched.args.case_name), "' no encontrado">>)

\* C26, as stated: the scan resolves the first case, in suite order and then
\* case order, whose name equals the input ignoring case or whose summary
\* holds the input, and answers not-found only when the project's first-level
\* suites hold no such case.
C26_ScanFirstMatch ==
  Scanned =>
    \E expected \in {FirstMatch(Dispatched.args.case_name, calls[FirstToolCall + 1].on[1])} :
      /\ tool.res = CaseNotFound <=> expected = 0
      /\ calls[Len(calls)].op = "addTestCaseToTestPlan" => calls[Len(calls)].on[3] = expected

\* C26, amended: as above, but the scan also answers not-found when one of
\* its listing calls fails.
C26_ScanFirstMatchUnlessFailed ==
  Scanned =>
    \E expected \in {FirstMatch(Dispatched.args.case_name, calls[FirstToolCall + 1].on[1])} :
      /\ tool.res = CaseNotFound <=> expected = 0 \/ ScanFailed
      /\ calls[Len(calls)].op = "addTestCaseToTestPlan" => calls[Len(calls)].on[3] = expected

C26_Witness ==
  /\ Scanned /\ ~ScanFailed
  /\ Dispatched.args.case_name = <<"d">>
  /\ Len(MatchesInOrder(<<"d">>, PA.id)) = 2
  /\ calls[Len(calls)].op = "addTestCaseToTestPlan" /\ calls[Len(calls)].on[3] = 31
  /\ tool.res.success

\* A request that listed the cases of a named suite, or created a build in
\* a named plan, of a named project, none of the tool's facade calls failing.
NamesResolved ==
  /\ Answered /\ tool.exc = NoExc /\ FailedToolCalls = {}
  /\ tool.handlers \in {<<"_list_test_cases_in_suite">>, <<"_create_build">>}
  /\ Get(Dispatched.args, "project_name") # None
  /\ tool.handlers = <<"_list_test_cases_in_suite">> => Get(Dispatched.args, "suite_name") # None
  /\ tool.handlers = <<"_create_build">> => Get(Dispatched.args, "plan_name") # None

\* The handler answered that the project (the suite, the plan) was not found.
NotFoundResults ==
  { Failure(<<"Proyecto no encontrado">>), Failure(<<"Suite no encontrada">>) }
  \cup { Failure(<<"Proyecto '", Show(p), "' no encontrado">>) : p \in ProjectArgs }
  \cup { Failure(<<"Plan '", Show(q), "' no encontrado en proyecto '", Show(p), "'">>) :
           q \in PlanArgs, p \in ProjectArgs }

\* C27: a project, a suite and a plan resolve to the id of the first listed
\* entity whose name equals the input ignoring case, and to not-found when
\* no listed name is equal; suites and plans are looked up in the listings
\* of the resolved project only.
C27_ExactNameResolves ==
  NamesResolved =>
    \E pid \in {CurrentId(remote.projects, Dispatched.args.project_name)} :
    \E sub \in {IF tool.handlers = <<"_create_build">>
                 THEN CurrentId(PlansOf(remote, pid), Dispatched.args.plan_name)
                 ELSE CurrentId(SuitesOf(pid), Dispatched.args.suite_name)} :
      /\ tool.res \in NotFoundResults <=> pid = 0 \/ sub = 0
      /\ pid = 0 => tool.issued = 1
      /\ pid # 0 =>
           /\ tool.issued >= 2
           /\ calls[FirstToolCall + 1].on = <<pid>>
           /\ calls[FirstToolCall + 1].op =
                IF tool.handlers = <<"_create_build">> THEN "getProjectTestPlans"
                ELSE "getFirstLevelTestSuitesForTestProject"
           /\ sub = 0 => tool.issued = 2
           /\ sub # 0 => tool.issued = 3 /\ calls[Len(calls)].on = <<sub>> /\ tool.res.success

\* The suite name "s" resolves to the suite "S" of the project "Ab", listed
\* second, and not to the suite "sd".
C27_Witness ==
  /\ NamesResolved /\ remote.projects = <<PB, PA>>
  /\ tool.handlers = <<"_list_test_cases_in_suite">>
  /\ Dispatched.args.project_name = <<"a", "B">>
  /\ Dispatched.args.suite_name = <<"s">>
  /\ calls[Len(calls)].on = <<11>> /\ tool.res.success

\* A search that got the project listing.
SearchRan ==
  /\ Answered /\ tool.handlers = <<"_search_tests">> /\ tool.exc = NoExc
  /\ tool.issued >= 1 /\ calls[FirstToolCall].out = NoExc

\* The suite listing of the project of that name failed.
SuitesFailedFor(project_name) ==
  \E i \in FailedToolCalls, k \in DOMAIN remote.projects :
    /\ calls[i].op = "getFirstLevelTestSuitesForTestProject"
    /\ calls[i].on = <<remote.projects[k].id>>
    /\ remote.projects[k].name = project_name

\* The case listing of the suite of that name failed.
CasesFailedFor(suite_name) ==
  \E i \in FailedToolCalls, k \in DOMAIN remote.projects :
    \E s \in Range(SuitesOf(remote.projects[k].id)) :
      /\ calls[i].op = "getTestCasesForTestSuite"
      /\ calls[i].on = <<s.id>>
      /\ s.name = suite_name

\* The entries a failed listing would have given.
Lost(entry) ==
  \/ entry.type \in {"test_suite", "test_case"} /\ SuitesFailedFor(entry.project)
  \/ entry.type = "test_case" /\ CasesFailedFor(entry.suite)

\* What the same search finds when no listing fails.
FoundWithoutFailure ==
  _search_tests([AtToolStart EXCEPT !.plan = <<>>], SearchedTerms).res.data.results

\* C28: a search whose suite listing of one project or case listing of one
\* suite fails still answers success true, with every entry the search finds
\* without the failure except those of the failed listing.
C28_SearchContinuesPastFailure ==
  SearchRan =>
    /\ tool.res.success
    /\ tool.res.data.results = SelectSeq(FoundWithoutFailure, LAMBDA e : ~Lost(e))

C28_Witness ==
  /\ SearchRan /\ tool.res.success
  /\ remote.projects = <<PA, PB>>
  /\ SuitesFailedFor(PA.name)
  /\ \E j \in DOMAIN tool.res.data.results : tool.res.data.results[j].id = PB.id
  /\ Len(tool.res.data.results) < Len(FoundWithoutFailure)

\* The tools that only read.
ReadTools ==
  {"list_projects", "read_test_case", "list_test_suites", "list_test_cases_in_suite",
   "search_tests", "list_test_plans", "get_test_cases_for_test_plan", "list_builds",
   "read_test_execution", "list_requirements", "get_requirement"}

\* The listing and get operations of the facade.
ReadOps ==
  {"getProjects", "getTestCase", "getFirstLevelTestSuitesForTestProject",
   "getTestCasesForTestSuite", "getProjectTestPlans", "getTestCasesForTestPlan",
   "getBuildsForTestPlan", "getLastExecutionResult", "getRequirementSpecifications",
   "getRequirementsForRequirementSpecification", "getRequirement"}

\* C30: the step that executes a read-only tool leaves the remote data as it
\* was and issues only listing and get operations, whatever the arguments
\* and the outcome.
C30_ReadToolsOnlyRead ==
  [][ pc = "model" /\ tool'.dispatched
        /\ reply'.parts[1].function_call.name \in ReadTools
      => /\ remote' = remote
         /\ \A i \in (Len(calls) + 1)..Len(calls') : calls'[i].op \in ReadOps ]_vars

C30_Witness ==
  /\ Answered /\ tool.dispatched /\ Dispatched.name = "list_requirements"
  /\ tool.issued >= 2 /\ tool.exc = NoExc /\ tool.res.success
  /\ \A i \in ToolCalls : calls[i].op \in ReadOps

\* The exceptions of reading a mandatory argument that is absent.
KeyErrors ==
  {KeyError(k) : k \in {"name", "project_name", "plan_name", "case_name", "status",
                          "build_name"}}

\* The dispatcher's answer to a name it has no branch for.
Unknown == tool.exc = NoExc /\ tool.res = Failure(<<"Herramienta desconocida: ", Dispatched.name>>)

\* C29: the dispatcher has a branch for exactly the names the catalogue
\* declares, and a call of a declared tool that carries the arguments the
\* catalogue requires enters the tool's handler: it is answered neither as
\* an unknown tool nor with a missing-argument error.
C29_CatalogueMatchesDispatcher ==
  Answered /\ tool.dispatched =>
    /\ Dispatched.name \in ToolNames <=> ~Unknown
    /\ Dispatched.name \in ToolNames /\ Required(Dispatched.name) \subseteq DOMAIN Dispatched.args
         => tool.handlers # <<>> /\ tool.exc \notin KeyErrors

C29_Witness ==
  /\ Answered /\ tool.dispatched /\ Dispatched.name = "create_test_case"
  /\ DOMAIN Dispatched.args = {"name", "project_name"}
  /\ tool.handlers = <<"_create_test_case">> /\ tool.exc = NoExc

\* C22: a request runs under the configuration of the moment: its handle is
\* made with the configured endpoint and credential, and the model is called
\* only if the model credential is configured.
C22_ConfigInEffect ==
  pc # "idle" =>
    /\ dotenv.TESTLINK_API_KEY # "none" =>
         tl_client = [url |-> dotenv.TESTLINK_URL, key |-> dotenv.TESTLINK_API_KEY]
    /\ ModelCalled => dotenv.GOOGLE_API_KEY = "set"

\* The prompt holds an interrogative or search keyword.
AsksOrSearches == Contains(Lower(prompt), <<"b", "u", "s", "c", "a", "r">>) \/ Contains(Lower(prompt), <<"q", "u", "é">>)

\* The prompt holds a create or list keyword.
CreatesOrLists ==
  \/ Contains(Lower(prompt), <<"l", "i", "s", "t", "a", "r", " ", "p", "r", "o", "y", "e", "c", "t", "o", "s">>)
  \/ Contains(Lower(prompt), <<"l", "i", "s", "t", " ", "p", "r", "o", "j", "e", "c", "t", "s">>)
  \/ Contains(Lower(prompt), <<"c", "r", "e", "a", "r", " ", "p", "r", "o", "y", "e", "c", "t", "o">>)

\* C23: the keyword router answers a prompt that holds an interrogative or
\* search keyword together with a create or list keyword as search_tests.
C23_SearchRuleFirst ==
  response.status = 200 /\ AsksOrSearches /\ CreatesOrLists =>
    response.body.action_taken = "search_tests"

\* C21: while a request waits for the model and when its tool then runs, the
\* handle is the one its own connect step established: no step taken in
\* between, another request's connect included, replaces it.
C21_OwnHandleKept == [][pc = "model" => tl_client' = tl_client]_vars

====
